---- MODULE Spec2Model ----
(***************************************************************************)
(* Formatting and export core of the Whisper transcription app:            *)
(* transcription/formatter.py (TranscriptionFormatter) and                 *)
(* export/document.py (DocumentExporter).                                  *)
(*                                                                         *)
(* Strings are sequences of one-character strings; the value a formatter   *)
(* returns is the joined string itself, with "\n" between the lines.       *)
(*                                                                         *)
(* A time value is a Python float.  It is written here by the decimal it   *)
(* is the nearest double to: [ms |-> k, sub |-> d] stands for the double   *)
(* nearest to (k + d/10000) milliseconds, d counting tenths of a           *)
(* microsecond (2.3 s is [ms |-> 2300, sub |-> 0], 0.9999996 s is          *)
(* [ms |-> 999, sub |-> 9996]).  The exact half-microsecond ties           *)
(* (d % 10 = 5) are left out of every input set: there the result of       *)
(* timedelta's rounding depends on the binary expansion of the input.      *)
(***************************************************************************)
EXTENDS Integers, Sequences, FiniteSets, TLC

VARIABLES
    transcription_data, \* the dict handed to the renderers
    seconds,            \* the argument of format_timestamp
    base_name,          \* the base_name argument of get_filename
    call,               \* the call that returned last, with its other arguments
    ret,                \* what that call returned
    st_error,           \* the messages that call passed to st.error
    download_buttons,   \* the st.download_button elements on the results page
    now,                \* the wall clock, in the 2 s steps of a zip entry's time
    remembered,         \* an earlier call and what it returned, or nothing yet
    pc,                 \* where transcribe_audio stands
    progress,           \* the fractions progress_callback was invoked with
    model,              \* WhisperEngine.model
    result,             \* the raw result of model.transcribe, or nothing
    session_state,      \* st.session_state, as the script leaves it at the end of a run
    temp_dir,           \* the processed uploads in config.TEMP_DIR
    downloads_dir,      \* the WAV files in config.DOWNLOADS_DIR
    attempts,           \* the downloads download_audio has started
    conversion          \* the last run of ffmpeg and the WAV file it left

vars == <<transcription_data, seconds, base_name, session_state, temp_dir, downloads_dir, attempts, conversion, call, ret, st_error,
          download_buttons, now, remembered, pc, progress, model, result>>

None == "None"
NoCall == [op |-> "none", raised |-> FALSE]

\* a key that is not in st.session_state
Absent == "absent"

\* st.session_state of a new session, and after every key was deleted
NoSession ==
    [audio_file |-> Absent, transcription_result |-> Absent,
     source_filename |-> Absent, processing_stage |-> Absent]

\* WhisperTranscriptionApp._initialize_session_state: the keys that are not
\* there yet get their defaults, the others keep their values
initialize_session_state(session) ==
    [audio_file |->
        IF session.audio_file = Absent THEN None ELSE session.audio_file,
     transcription_result |->
        IF session.transcription_result = Absent THEN None
        ELSE session.transcription_result,
     source_filename |->
        IF session.source_filename = Absent THEN None ELSE session.source_filename,
     processing_stage |->
        IF session.processing_stage = Absent THEN "input"
        ELSE session.processing_stage]

\* ffmpeg has not run
NoConversion == [ran |-> FALSE, returncode |-> 0, exists |-> FALSE, st_size |-> 0]

\* nothing rendered, no call under way, the session as the first script run
\* sets it up, no audio file on disk, no download started
Quiet ==
    /\ st_error = <<>>
    /\ download_buttons = <<>>
    /\ now = 0
    /\ remembered = <<>>
    /\ session_state = initialize_session_state(NoSession)
    /\ temp_dir = {}
    /\ downloads_dir = {}
    /\ attempts = 0
    /\ conversion = NoConversion

\* WhisperEngine.__init__: no model loaded, no call under way
EngineNew ==
    /\ pc = "idle"
    /\ progress = <<>>
    /\ model = None
    /\ result = <<>>

(***************************************************************************)
(* Characters, strings and the built-in conversions the code uses.         *)
(***************************************************************************)
NL == "\n"
DigitChars == <<"0", "1", "2", "3", "4", "5", "6", "7", "8", "9">>
\* the characters str.strip() removes (str.isspace): the ones TLA+ cannot
\* spell stand under their code points, one element for each
Whitespace ==
    {"\t", NL, "U+000B", "\f", "\r", "U+001C", "U+001D", "U+001E",
     "U+001F", " ", "U+0085", "U+00A0", "U+1680", "U+2000", "U+2001",
     "U+2002", "U+2003", "U+2004", "U+2005", "U+2006", "U+2007", "U+2008",
     "U+2009", "U+200A", "U+2028", "U+2029", "U+202F", "U+205F", "U+3000"}

Digit(d) == DigitChars[d + 1]

\* str(i) of a non-negative int
RECURSIVE str(_)
str(n) == IF n < 10 THEN <<Digit(n)>> ELSE str(n \div 10) \o <<Digit(n % 10)>>

\* "c" * n
Repeat(c, n) == [i \in 1..n |-> c]

\* f"{n:0{w}d}": zero-padded to at least w digits, never cut
ZeroPad(n, w) ==
    LET s == str(n)
    IN IF Len(s) >= w THEN s ELSE Repeat("0", w - Len(s)) \o s

\* s.replace(old, new) for single characters: every occurrence
Replace(s, old, new) == [i \in 1..Len(s) |-> IF s[i] = old THEN new ELSE s[i]]

\* s.strip()
RECURSIVE lstrip(_)
lstrip(s) == IF s # <<>> /\ Head(s) \in Whitespace THEN lstrip(Tail(s)) ELSE s

RECURSIVE rstrip(_)
rstrip(s) ==
    IF s # <<>> /\ s[Len(s)] \in Whitespace
    THEN rstrip(SubSeq(s, 1, Len(s) - 1))
    ELSE s

strip(s) == rstrip(lstrip(s))

\* sep.join(parts)
RECURSIVE join(_, _)
join(sep, parts) ==
    IF parts = <<>> THEN <<>>
    ELSE IF Len(parts) = 1 THEN parts[1]
    ELSE parts[1] \o sep \o join(sep, Tail(parts))

\* s.split(sep) for a one-character separator
RECURSIVE split(_, _)
split(s, sep) ==
    IF \A i \in 1..Len(s) : s[i] # sep THEN <<s>>
    ELSE LET p == CHOOSE i \in 1..Len(s) : s[i] = sep /\ \A j \in 1..(i - 1) : s[j] # sep
         IN <<SubSeq(s, 1, p - 1)>> \o split(SubSeq(s, p + 1, Len(s)), sep)

\* int(s) of a string of decimal digits
RECURSIVE ParseInt(_)
ParseInt(s) ==
    IF s = <<>> THEN 0
    ELSE 10 * ParseInt(SubSeq(s, 1, Len(s) - 1))
         + (CHOOSE d \in 0..9 : Digit(d) = s[Len(s)])

IsDigits(s) == s # <<>> /\ \A i \in 1..Len(s) : \E d \in 0..9 : s[i] = Digit(d)

(***************************************************************************)
(* Double-precision arithmetic of format_timestamp.                        *)
(***************************************************************************)
RECURSIVE Pow2(_)
Pow2(n) == IF n = 0 THEN 1 ELSE 2 * Pow2(n - 1)

\* 2^n modulo m
RECURSIVE Pow2Mod(_, _)
Pow2Mod(n, m) == IF n = 0 THEN 1 % m ELSE (2 * Pow2Mod(n - 1, m)) % m

\* floor(log2(j)) for j >= 1
RECURSIVE FloorLog2(_)
FloorLog2(j) == IF j < 2 THEN 0 ELSE 1 + FloorLog2(j \div 2)

IsPow2(j) == j = Pow2(FloorLog2(j))

\* the least n >= 1 with k * 2^n >= 1000, for 1 <= k < 1000
RECURSIVE ShiftToUnit(_)
ShiftToUnit(k) == IF 2 * k >= 1000 THEN 1 ELSE 1 + ShiftToUnit(2 * k)

\* The binary exponent of the double nearest to k/1000 (k >= 1 whole
\* milliseconds): floor(log2(k/1000)).
Exponent(k) == IF k >= 1000 THEN FloorLog2(k \div 1000) ELSE 0 - ShiftToUnit(k)

\* timedelta(seconds=seconds): the value rounded to whole microseconds,
\* round-half-even, kept as whole milliseconds and the microseconds left.
timedelta(t) ==
    LET q  == t.sub \div 10
        r  == t.sub % 10
        us == IF r > 5 \/ (r = 5 /\ q % 2 = 1) THEN q + 1 ELSE q
    IN IF us = 1000 THEN [ms |-> t.ms + 1, us |-> 0] ELSE [ms |-> t.ms, us |-> us]

\* int((seconds % 1) * 1000) where seconds % 1 is the fractional part of
\* td.total_seconds(), the double D nearest to the timedelta's value.
\* The remainders of divmod and of % 1 are exact, so seconds % 1 is D - floor(D).
\* With microseconds left the product lies strictly between two whole
\* numbers and int() gives the milliseconds.  With none left, write
\* j = k % 1000, b = Exponent(k): D = M * 2^(b-52) with M the integer
\* nearest to k * 2^(52-b) / 1000, and r = k * 2^(52-b) - 1000 * M (here
\* modulo 1000, centred) is the representation error in units of
\* 2^(b-52)/1000 s.  The product (D - floor(D)) * 1000 is exactly
\* j - r * 2^(b-52); it rounds to the double j when r <= 2^(a-b-1)
\* (halved when j is a power of two), a = floor(log2(j)), and to a double
\* below j otherwise, which int() truncates to j - 1.
milliseconds(td) ==
    LET k == td.ms
        j == k % 1000
    IN IF td.us # 0 \/ j = 0 THEN j
       ELSE LET a  == FloorLog2(j)
                b  == Exponent(k)
                m  == (j * Pow2Mod(52 - b, 1000)) % 1000
                r  == IF m > 500 THEN m - 1000 ELSE m
                e  == a - b - 1 - (IF IsPow2(j) THEN 1 ELSE 0)
            IN IF r <= 0 \/ (e >= 0 /\ r <= Pow2(e)) THEN j ELSE j - 1

\* hours, remainder = divmod(td.total_seconds(), 3600);
\* minutes, seconds = divmod(remainder, 60); the int() of each
hours(td) == td.ms \div 3600000
minutes(td) == (td.ms \div 60000) % 60
whole_seconds(td) == (td.ms \div 1000) % 60

\* TranscriptionFormatter.format_timestamp
format_timestamp(t) ==
    LET td == timedelta(t)
    IN ZeroPad(hours(td), 2) \o <<":">> \o ZeroPad(minutes(td), 2) \o <<":">>
       \o ZeroPad(whole_seconds(td), 2) \o <<".">> \o ZeroPad(milliseconds(td), 3)

(***************************************************************************)
(* format_timestamp on its own: the argument is drawn, then formatted.     *)
(***************************************************************************)
TimeHours == {0, 1, 99, 100}
TimeMinutes == {0, 1, 2, 59}
TimeSeconds == {0, 1, 2, 5, 59}
TimeMillis == {0, 1, 9, 300, 500, 999}
TimeSubs == {0, 4, 4996, 9994, 9996}

Times ==
    {[ms |-> ((h * 60 + m) * 60 + s) * 1000 + f, sub |-> d] :
        h \in TimeHours, m \in TimeMinutes, s \in TimeSeconds,
        f \in TimeMillis, d \in TimeSubs}

Time0 == [ms |-> 0, sub |-> 0]
NoData == [text |-> <<>>]

InitTimestamp ==
    /\ seconds \in Times
    /\ transcription_data = NoData
    /\ base_name = <<>>
    /\ call = NoCall
    /\ ret = None
    /\ Quiet
    /\ EngineNew

FormatTimestamp ==
    /\ call' = [op |-> "format_timestamp"]
    /\ ret' = format_timestamp(seconds)
    /\ UNCHANGED <<transcription_data, seconds, base_name, session_state, temp_dir, downloads_dir, attempts, conversion, st_error,
                   download_buttons, now, remembered, pc, progress, model, result>>

NextTimestamp == FormatTimestamp

SpecTimestamp == InitTimestamp /\ [][NextTimestamp]_vars

\* The four fields of a returned timestamp, read back from its text.
TsParts(ts) ==
    LET p == split(ts, ":")
        q == IF Len(p) = 3 THEN split(p[3], ".") ELSE <<>>
    IN IF Len(p) = 3 /\ Len(q) = 2 THEN <<p[1], p[2], q[1], q[2]>> ELSE <<>>

TsWellFormed(ts) ==
    LET f == TsParts(ts)
    IN /\ Len(f) = 4
       /\ \A i \in 1..4 : IsDigits(f[i])
       /\ Len(f[1]) >= 2 /\ (Len(f[1]) > 2 => f[1][1] # "0")
       /\ Len(f[2]) = 2 /\ ParseInt(f[2]) <= 59
       /\ Len(f[3]) = 2 /\ ParseInt(f[3]) <= 59
       /\ Len(f[4]) = 3

TsValue(ts) ==
    LET f == TsParts(ts)
    IN ((ParseInt(f[1]) * 60 + ParseInt(f[2])) * 60 + ParseInt(f[3])) * 1000
       + ParseInt(f[4])

\* C3: a whole number t of milliseconds is returned as HH:MM:SS.mmm with
\* two-digit minutes and seconds up to 59, three-digit milliseconds, hours
\* t div 3600000 on at least two digits, and the four fields make up t again.
C3_FieldsRecomposeToInput ==
    (call.op = "format_timestamp" /\ seconds.sub = 0) =>
        /\ TsWellFormed(ret)
        /\ ParseInt(TsParts(ret)[1]) = seconds.ms \div 3600000
        /\ TsValue(ret) = seconds.ms

\* C4: the millisecond field is the floor of the fractional second times
\* 1000, so a time with a remainder below the millisecond is printed as the
\* whole millisecond under it, with no carry into the higher fields.
C4_SubMillisecondTruncated ==
    (call.op = "format_timestamp" /\ seconds.sub > 0) =>
        /\ TsWellFormed(ret)
        /\ TsValue(ret) = seconds.ms

(***************************************************************************)
(* The transcription_data dict and the literals of the renderers.          *)
(***************************************************************************)
\* d.get(key, default)
get(d, key, default) == IF key \in DOMAIN d THEN d[key] ELSE default

\* a start, end or duration that is None: the engine copies
\* segment.get("start") and word.get("start") without a default
NoneTime == [none |-> TRUE]

\* timedelta(seconds=None) raises TypeError
format_timestamp_raises(t) == t = NoneTime

LowerChars == <<"a", "b", "c", "d", "e", "f", "g", "h", "i", "j", "k", "l", "m", "n", "o", "p", "q", "r", "s", "t", "u", "v", "w", "x", "y", "z">>
UpperChars == <<"A", "B", "C", "D", "E", "F", "G", "H", "I", "J", "K", "L", "M", "N", "O", "P", "Q", "R", "S", "T", "U", "V", "W", "X", "Y", "Z">>

\* s.upper()
upper(s) ==
    [i \in 1..Len(s) |->
        IF \E n \in 1..Len(LowerChars) : LowerChars[n] = s[i]
        THEN UpperChars[CHOOSE n \in 1..Len(LowerChars) : LowerChars[n] = s[i]]
        ELSE s[i]]

\* f"{n:,}"
RECURSIVE thousands(_)
thousands(n) ==
    IF n < 1000 THEN str(n)
    ELSE thousands(n \div 1000) \o <<",">> \o ZeroPad(n % 1000, 3)

\* a line of ten words, as the document renderer cuts them
words_per_line_ten == 8 + 2

words_per_line == 8
HeaderRuleWidth == 50
BlockRuleWidth == 40

NoWordsSentinel == <<"N", "o", " ", "w", "o", "r", "d", "-", "l", "e", "v", "e", "l", " ", "t", "i", "m", "e", "s", "t", "a", "m", "p", "s", " ", "a", "v", "a", "i", "l", "a", "b", "l", "e", ".">>
NoSegmentsSentinel == <<"N", "o", " ", "s", "e", "g", "m", "e", "n", "t", "-", "l", "e", "v", "e", "l", " ", "t", "i", "m", "e", "s", "t", "a", "m", "p", "s", " ", "a", "v", "a", "i", "l", "a", "b", "l", "e", ".">>
NoSrtSentinel == <<"N", "o", " ", "s", "e", "g", "m", "e", "n", "t", "s", " ", "a", "v", "a", "i", "l", "a", "b", "l", "e", " ", "f", "o", "r", " ", "S", "R", "T", " ", "f", "o", "r", "m", "a", "t", ".">>
NoVttSentinel == <<"N", "o", " ", "s", "e", "g", "m", "e", "n", "t", "s", " ", "a", "v", "a", "i", "l", "a", "b", "l", "e", " ", "f", "o", "r", " ", "V", "T", "T", " ", "f", "o", "r", "m", "a", "t", ".">>
WordHeader == <<"W", "O", "R", "D", "-", "L", "E", "V", "E", "L", " ", "T", "I", "M", "E", "S", "T", "A", "M", "P", "S">>
WordSubHeader == <<"E", "a", "c", "h", " ", "w", "o", "r", "d", " ", "s", "h", "o", "w", "n", " ", "w", "i", "t", "h", " ", "i", "n", "d", "i", "v", "i", "d", "u", "a", "l", " ", "t", "i", "m", "e", "s", "t", "a", "m", "p", "s">>
SegmentHeader == <<"S", "E", "G", "M", "E", "N", "T", "-", "L", "E", "V", "E", "L", " ", "T", "I", "M", "E", "S", "T", "A", "M", "P", "S">>
WebVttHeader == <<"W", "E", "B", "V", "T", "T">>
TimeArrow == <<" ", "-", "-", ">", " ">>
UnknownLanguage == <<"u", "n", "k", "n", "o", "w", "n">>

(***************************************************************************)
(* TranscriptionFormatter: the text renderers.                             *)
(***************************************************************************)
\* f'"{word}" [{start_ts}-{end_ts}]' for the words of one line that are not
\* blank once stripped (formatter.py lines 70-81)
RECURSIVE word_entries(_)
word_entries(line_words) ==
    IF line_words = <<>> THEN <<>>
    ELSE LET word_data == Head(line_words)
             word == strip(get(word_data, "word", <<>>))
             start == get(word_data, "start", Time0)
             end == get(word_data, "end", Time0)
         IN IF word = <<>> THEN word_entries(Tail(line_words))
            ELSE <<(<<"\"">> \o word \o <<"\"", " ", "[">> \o format_timestamp(start)
                    \o <<"-">> \o format_timestamp(end) \o <<"]">>)>>
                 \o word_entries(Tail(line_words))

\* for i in range(0, len(words), words_per_line): ... (lines 66-85)
RECURSIVE word_lines(_, _)
word_lines(words, i) ==
    IF i >= Len(words) THEN <<>>
    ELSE LET hi == IF i + words_per_line < Len(words)
                   THEN i + words_per_line ELSE Len(words)
             entries == word_entries(SubSeq(words, i + 1, hi))
         IN (IF entries # <<>> THEN <<join(<<" ", "|", " ">>, entries), <<>>>> ELSE <<>>)
            \o word_lines(words, i + words_per_line)

\* a word that is not blank is formatted with its start and its end
word_entry_raises(word_data) ==
    /\ strip(get(word_data, "word", <<>>)) # <<>>
    /\ \/ format_timestamp_raises(get(word_data, "start", Time0))
       \/ format_timestamp_raises(get(word_data, "end", Time0))

format_word_timestamps_raises(data) ==
    LET words == get(data, "words", <<>>)
    IN \E i \in 1..Len(words) : word_entry_raises(words[i])

\* the banner left out
format_word_timestamps_no_banner(data) ==
    LET words == get(data, "words", <<>>)
    IN IF words = <<>> THEN NoWordsSentinel
       ELSE join(<<NL>>, <<WordSubHeader, <<>>>> \o word_lines(words, 0))

format_word_timestamps(data) ==
    LET words == get(data, "words", <<>>)
    IN IF words = <<>> THEN NoWordsSentinel
       ELSE join(<<NL>>,
                 <<WordHeader, Repeat("=", HeaderRuleWidth), WordSubHeader, <<>>>>
                 \o word_lines(words, 0))

\* a segment whose text is not blank is formatted with its start and its end
segment_raises(segment) ==
    /\ strip(get(segment, "text", <<>>)) # <<>>
    /\ \/ format_timestamp_raises(get(segment, "start", Time0))
       \/ format_timestamp_raises(get(segment, "end", Time0))

segments_raise(data) ==
    LET segments == get(data, "segments", <<>>)
    IN \E i \in 1..Len(segments) : segment_raises(segments[i])

format_segment_timestamps_raises(data) == segments_raise(data)
format_srt_subtitles_raises(data) == segments_raise(data)
format_vtt_subtitles_raises(data) == segments_raise(data)

\* blank segments written like the others
RECURSIVE segment_blocks_unfiltered(_, _)
segment_blocks_unfiltered(segments, i) ==
    IF i > Len(segments) THEN <<>>
    ELSE LET segment == segments[i]
         IN << <<"S", "e", "g", "m", "e", "n", "t", " ">> \o ZeroPad(i, 3),
               <<"T", "i", "m", "e", ":", " ">> \o format_timestamp(get(segment, "start", Time0)) \o TimeArrow
                  \o format_timestamp(get(segment, "end", Time0)),
               <<"T", "e", "x", "t", ":", " ">> \o strip(get(segment, "text", <<>>)),
               Repeat("-", BlockRuleWidth) >>
            \o segment_blocks_unfiltered(segments, i + 1)

\* for i, segment in enumerate(segments, 1): ... (lines 109-123)
RECURSIVE segment_blocks(_, _)
segment_blocks(segments, i) ==
    IF i > Len(segments) THEN <<>>
    ELSE LET segment == segments[i]
             start == get(segment, "start", Time0)
             end == get(segment, "end", Time0)
             text == strip(get(segment, "text", <<>>))
         IN (IF text = <<>> THEN <<>>
             ELSE << <<"S", "e", "g", "m", "e", "n", "t", " ">> \o ZeroPad(i, 3),
                     <<"T", "i", "m", "e", ":", " ">> \o format_timestamp(start) \o TimeArrow
                        \o format_timestamp(end),
                     <<"T", "e", "x", "t", ":", " ">> \o text,
                     Repeat("-", BlockRuleWidth) >>)
            \o segment_blocks(segments, i + 1)

format_segment_timestamps(data) ==
    LET segments == get(data, "segments", <<>>)
    IN IF segments = <<>> THEN NoSegmentsSentinel
       ELSE join(<<NL>>,
                 <<SegmentHeader, Repeat("=", HeaderRuleWidth), <<>>>>
                 \o segment_blocks(segments, 1))

\* the comma form computed on its own from the time, not from format_timestamp
srt_timestamp_recomputed(t) ==
    ZeroPad(t.ms \div 3600000, 2) \o <<":">> \o ZeroPad((t.ms \div 60000) % 60, 2)
    \o <<":">> \o ZeroPad((t.ms \div 1000) % 60, 2) \o <<",">> \o ZeroPad(t.ms % 1000, 3)

\* format_timestamp(start).replace('.', ',') (lines 153-154)
srt_timestamp(t) == Replace(format_timestamp(t), ".", ",")

\* the blocks with the text of each segment as it stands, blank ones left out
RECURSIVE srt_blocks_unstripped(_, _)
srt_blocks_unstripped(segments, i) ==
    IF i > Len(segments) THEN <<>>
    ELSE LET segment == segments[i]
             text == get(segment, "text", <<>>)
         IN (IF strip(text) = <<>> THEN <<>>
             ELSE << str(i),
                     srt_timestamp(get(segment, "start", Time0)) \o TimeArrow
                         \o srt_timestamp(get(segment, "end", Time0)),
                     text,
                     <<>> >>)
            \o srt_blocks_unstripped(segments, i + 1)
\* for i, segment in enumerate(segments, 1): ... (lines 144-159)
RECURSIVE srt_blocks(_, _)
srt_blocks(segments, i) ==
    IF i > Len(segments) THEN <<>>
    ELSE LET segment == segments[i]
             start == get(segment, "start", Time0)
             end == get(segment, "end", Time0)
             text == strip(get(segment, "text", <<>>))
         IN (IF text = <<>> THEN <<>>
             ELSE << str(i),
                     srt_timestamp(start) \o TimeArrow \o srt_timestamp(end),
                     text,
                     <<>> >>)
            \o srt_blocks(segments, i + 1)

format_srt_subtitles(data) ==
    LET segments == get(data, "segments", <<>>)
    IN IF segments = <<>> THEN NoSrtSentinel
       ELSE join(<<NL>>, srt_blocks(segments, 1))

\* the cues with the comma timestamps of SRT
RECURSIVE vtt_cues_comma(_)
vtt_cues_comma(segments) ==
    IF segments = <<>> THEN <<>>
    ELSE LET segment == Head(segments)
             text == strip(get(segment, "text", <<>>))
         IN (IF text = <<>> THEN <<>>
             ELSE << srt_timestamp(get(segment, "start", Time0)) \o TimeArrow
                        \o srt_timestamp(get(segment, "end", Time0)),
                     text,
                     <<>> >>)
            \o vtt_cues_comma(Tail(segments))
\* for segment in segments: ... (lines 180-193)
RECURSIVE vtt_cues(_)
vtt_cues(segments) ==
    IF segments = <<>> THEN <<>>
    ELSE LET segment == Head(segments)
             start == get(segment, "start", Time0)
             end == get(segment, "end", Time0)
             text == strip(get(segment, "text", <<>>))
         IN (IF text = <<>> THEN <<>>
             ELSE << format_timestamp(start) \o TimeArrow \o format_timestamp(end),
                     text,
                     <<>> >>)
            \o vtt_cues(Tail(segments))

\* the empty list not told apart
format_vtt_subtitles_unguarded(data) ==
    join(<<NL>>, <<WebVttHeader, <<>>>> \o vtt_cues(get(data, "segments", <<>>)))

format_vtt_subtitles(data) ==
    LET segments == get(data, "segments", <<>>)
    IN IF segments = <<>> THEN NoVttSentinel
       ELSE join(<<NL>>, <<WebVttHeader, <<>>>> \o vtt_cues(segments))

\* words per second
wpm_per_second(word_count, duration) ==
    IF duration.ms > 0 THEN (1000 * word_count) \div duration.ms ELSE 0

\* the test of the duration left out, the division done by the least
\* positive duration instead
wpm_unguarded(word_count, duration) ==
    (60000 * word_count) \div (IF duration.ms > 0 THEN duration.ms ELSE 1)
\* int(word_count / (duration / 60)) if duration > 0 else 0.  The quotient
\* is a double; its integer part is that of the exact quotient
\* 60000 * word_count / duration.ms on every duration and count drawn in
\* this module.  (The two part only where the division comes out whole and
\* both roundings fall under it: 3 words in 1.8 s give 99.)
wpm(word_count, duration) ==
    IF duration.ms > 0 \/ duration.sub > 0
    THEN (60000 * word_count) \div duration.ms
    ELSE 0

\* duration > 0 raises TypeError on None
get_transcription_summary_raises(data) == get(data, "duration", Time0) = NoneTime

\* TranscriptionFormatter.get_transcription_summary: the dict, in the
\* order of its keys
get_transcription_summary(data) ==
    LET duration == get(data, "duration", Time0)
        word_count == get(data, "word_count", 0)
        segment_count == get(data, "segment_count", 0)
        language == get(data, "language", UnknownLanguage)
    IN << <<<<"D", "u", "r", "a", "t", "i", "o", "n">>, format_timestamp(duration)>>,
          <<<<"W", "o", "r", "d", " ", "C", "o", "u", "n", "t">>, thousands(word_count)>>,
          <<<<"S", "e", "g", "m", "e", "n", "t", "s">>, str(segment_count)>>,
          <<<<"L", "a", "n", "g", "u", "a", "g", "e">>, upper(language)>>,
          <<<<"W", "o", "r", "d", "s", " ", "p", "e", "r", " ", "M", "i", "n", "u", "t", "e">>, str(wpm(word_count, duration))>>,
          <<<<"C", "h", "a", "r", "a", "c", "t", "e", "r", "s">>, thousands(Len(get(data, "text", <<>>)))>> >>

(***************************************************************************)
(* DocumentExporter: the timestamp sections of the document.  A document   *)
(* is the sequence of its block elements; a paragraph made of one run      *)
(* carries the run's italic and bold.                                      *)
(***************************************************************************)
Heading(text, level) == [kind |-> "heading", text |-> text, level |-> level]
Paragraph(text) == [kind |-> "paragraph", text |-> text, italic |-> FALSE, bold |-> FALSE]
RunParagraph(text, italic, bold) ==
    [kind |-> "paragraph", text |-> text, italic |-> italic, bold |-> bold]

\* the separator of the document's time ranges as the source file spells
\* it: the three characters U+00E2, U+2020, U+2019 (a right arrow whose
\* UTF-8 bytes were read as Windows-1252), one element for each
RightArrow == <<"U+00E2", "U+2020", "U+2019">>

\* An exception raised while a document is put together: the document as it
\* stands, closed by this mark; nothing is added to it afterwards.
Exception == [kind |-> "exception"]
Raised(doc) == doc # <<>> /\ doc[Len(doc)].kind = "exception"

\* DocumentExporter._add_timestamped_paragraph
add_timestamped_paragraph(doc, words, start_time, end_time) ==
    IF format_timestamp_raises(start_time) \/ format_timestamp_raises(end_time)
    THEN Append(doc, Exception)
    ELSE LET line_text == join(<<" ">>, words)
             start_ts == format_timestamp(start_time)
             end_ts == format_timestamp(end_time)
         IN doc \o << RunParagraph(<<"[">> \o start_ts \o <<" ">> \o RightArrow \o <<" ">>
                                   \o end_ts \o <<"]">>, TRUE, TRUE),
                      Paragraph(line_text),
                      Paragraph(<<>>) >>

\* the full stop only
ends_sentence_period(word) == word[Len(word)] = "."

\* word.endswith('.') or word.endswith('!') or word.endswith('?')
ends_sentence(word) == word[Len(word)] \in {".", "!", "?"}

\* for word_data in words: ... and the remaining words (lines 115-142);
\* line_start_time is <<>> for None and <<t>> for the time t
RECURSIVE word_section_loop(_, _, _, _, _)
word_section_loop(words, i, current_line, line_start_time, doc) ==
    IF Raised(doc) THEN doc
    ELSE IF i > Len(words)
    THEN IF current_line # <<>>
         THEN add_timestamped_paragraph(doc, current_line,
                  IF line_start_time = <<>> THEN Time0 ELSE line_start_time[1],
                  get(words[Len(words)], "end", Time0))
         ELSE doc
    ELSE LET word_data == words[i]
             word == strip(get(word_data, "word", <<>>))
             start == get(word_data, "start", Time0)
             end == get(word_data, "end", Time0)
             started == IF line_start_time # <<>> THEN line_start_time
                        ELSE IF start = NoneTime THEN <<>> ELSE <<start>>
             line == Append(current_line, word)
         IN IF word = <<>>
            THEN word_section_loop(words, i + 1, current_line, line_start_time, doc)
            ELSE IF Len(line) >= 10 \/ ends_sentence(word)
            THEN word_section_loop(words, i + 1, <<>>, <<>>,
                     add_timestamped_paragraph(doc, line,
                         IF started = <<>> THEN NoneTime ELSE started[1], end))
            ELSE word_section_loop(words, i + 1, line, started, doc)

\* DocumentExporter._add_word_timestamps_section
add_word_timestamps_section(doc, data) ==
    LET headed == Append(doc, Heading(<<"W", "o", "r", "d", "-", "L", "e", "v", "e", "l", " ", "T", "i", "m", "e", "s", "t", "a", "m", "p", "s">>, 1))
        words == get(data, "words", <<>>)
    IN IF words = <<>> THEN Append(headed, Paragraph(NoWordsSentinel))
       ELSE word_section_loop(words, 1, <<>>, <<>>, headed)

\* the sections numbered 1, 2, ... as they are written
RECURSIVE segment_section_loop_renumbered(_, _, _)
segment_section_loop_renumbered(segments, i, doc) ==
    IF Raised(doc) \/ i > Len(segments) THEN doc
    ELSE LET segment == segments[i]
             start == get(segment, "start", Time0)
             end == get(segment, "end", Time0)
             text == strip(get(segment, "text", <<>>))
             written == Cardinality({j \in 1..i :
                            strip(get(segments[j], "text", <<>>)) # <<>>})
         IN IF text = <<>> THEN segment_section_loop_renumbered(segments, i + 1, doc)
            ELSE IF format_timestamp_raises(start) \/ format_timestamp_raises(end)
            THEN doc \o << Heading(<<"S", "e", "g", "m", "e", "n", "t", " ">> \o ZeroPad(written, 3), 2), Exception >>
            ELSE segment_section_loop_renumbered(segments, i + 1,
                     doc \o << Heading(<<"S", "e", "g", "m", "e", "n", "t", " ">> \o ZeroPad(written, 3), 2),
                               RunParagraph(<<"T", "i", "m", "e", ":", " ">> \o format_timestamp(start)
                                            \o <<" ">> \o RightArrow \o <<" ">>
                                            \o format_timestamp(end), TRUE, FALSE),
                               Paragraph(text),
                               Paragraph(<<>>) >>)
\* for i, segment in enumerate(segments, 1): ... (lines 153-173)
RECURSIVE segment_section_loop(_, _, _)
segment_section_loop(segments, i, doc) ==
    IF Raised(doc) \/ i > Len(segments) THEN doc
    ELSE LET segment == segments[i]
             start == get(segment, "start", Time0)
             end == get(segment, "end", Time0)
             text == strip(get(segment, "text", <<>>))
         IN IF text = <<>> THEN segment_section_loop(segments, i + 1, doc)
            ELSE IF format_timestamp_raises(start) \/ format_timestamp_raises(end)
            THEN doc \o << Heading(<<"S", "e", "g", "m", "e", "n", "t", " ">> \o ZeroPad(i, 3), 2),
                           Exception >>
            ELSE segment_section_loop(segments, i + 1,
                     doc \o << Heading(<<"S", "e", "g", "m", "e", "n", "t", " ">> \o ZeroPad(i, 3), 2),
                               RunParagraph(<<"T", "i", "m", "e", ":", " ">> \o format_timestamp(start)
                                            \o <<" ">> \o RightArrow \o <<" ">>
                                            \o format_timestamp(end), TRUE, FALSE),
                               Paragraph(text),
                               Paragraph(<<>>) >>)

\* DocumentExporter._add_segment_timestamps_section
add_segment_timestamps_section(doc, data) ==
    LET headed == Append(doc, Heading(<<"S", "e", "g", "m", "e", "n", "t", "-", "L", "e", "v", "e", "l", " ", "T", "i", "m", "e", "s", "t", "a", "m", "p", "s">>, 1))
        segments == get(data, "segments", <<>>)
    IN IF segments = <<>> THEN Append(headed, Paragraph(NoSegmentsSentinel))
       ELSE segment_section_loop(segments, 1, headed)

\* the text handed back as it is
format_plain_text_unstripped(data) == get(data, "text", <<>>)
\* TranscriptionFormatter.format_plain_text
format_plain_text(data) == strip(get(data, "text", <<>>))

\* content.encode('utf-8'): a bytes object, here by the text it decodes to
encode(content) == [utf8 |-> content]

\* DocumentExporter.create_text_download
create_text_download(content, filename) == encode(content)

\* doc.add_heading('Audio Transcription Report', 0), centred
TitleHeading ==
    [kind |-> "heading", text |-> <<"A", "u", "d", "i", "o", " ", "T", "r", "a", "n", "s", "c", "r", "i", "p", "t", "i", "o", "n", " ", "R", "e", "p", "o", "r", "t">>, level |-> 0,
     alignment |-> "CENTER"]

\* the table of _add_summary_section: a row for each item, its key in bold
summary_table(summary) ==
    [kind |-> "table", style |-> "Table Grid",
     rows |-> [i \in 1..Len(summary) |->
                  [key |-> summary[i][1], key_bold |-> TRUE, value |-> summary[i][2]]]]

\* DocumentExporter._add_summary_section
add_summary_section(doc, data) ==
    IF get_transcription_summary_raises(data)
    THEN doc \o << Heading(<<"S", "u", "m", "m", "a", "r", "y">>, 1), Exception >>
    ELSE doc \o << Heading(<<"S", "u", "m", "m", "a", "r", "y">>, 1),
                   summary_table(get_transcription_summary(data)),
                   [kind |-> "page_break"] >>

\* DocumentExporter._add_plain_text_section
add_plain_text_section(doc, data) ==
    doc \o << Heading(<<"T", "r", "a", "n", "s", "c", "r", "i", "p", "t", "i", "o", "n">>, 1), Paragraph(format_plain_text(data)) >>
\* Document()
NewDocument == <<>>

\* What can fail in create_docx_download that the transcription does not
\* decide: the title (Document(), add_heading) and doc.save.
DocxFaults == {"none", "title", "save"}

DocxError == "Error creating DOCX document"
SubtitleError == "Error creating subtitle file"

\* doc = Document(); doc.add_heading('Audio Transcription Report', 0)
titled_document(fault) ==
    IF fault = "title" THEN Append(NewDocument, Exception)
    ELSE Append(NewDocument, TitleHeading)

\* the section for format_type (lines 62-67)
add_content_section(doc, data, format_type) ==
    IF format_type = <<"w", "o", "r", "d", "_", "t", "i", "m", "e", "s", "t", "a", "m", "p", "s">> THEN add_word_timestamps_section(doc, data)
    ELSE IF format_type = <<"s", "e", "g", "m", "e", "n", "t", "_", "t", "i", "m", "e", "s", "t", "a", "m", "p", "s">> THEN add_segment_timestamps_section(doc, data)
    ELSE add_plain_text_section(doc, data)

\* a statement of the try block: not reached once an exception is raised
summary_step(doc, data) ==
    IF Raised(doc) THEN doc ELSE add_summary_section(doc, data)

content_step(doc, data, format_type) ==
    IF Raised(doc) THEN doc ELSE add_content_section(doc, data, format_type)

\* the statements of create_docx_download up to doc.save (lines 52-67)
assemble_docx(data, format_type, fault) ==
    content_step(summary_step(titled_document(fault), data), data, format_type)

\* doc.save(doc_io); doc_io.getvalue(): the bytes of a zip archive whose
\* entries hold the document's parts and, in their headers, the local time
\* at which they were written
saved_docx(doc, saved_at) == [docx |-> doc, saved_at |-> saved_at]

\* what was put together before the failure returned all the same
save_or_report_partial(doc, fault, saved_at) ==
    IF Raised(doc) \/ fault = "save"
    THEN [ret |-> <<saved_docx(doc, saved_at)>>, st_error |-> <<DocxError>>]
    ELSE [ret |-> <<saved_docx(doc, saved_at)>>, st_error |-> <<>>]

\* lines 69-78: the bytes of the saved document, or the except clause:
\* st.error and None (<<>> for None, <<b>> for the bytes b)
save_or_report(doc, fault, saved_at) ==
    IF Raised(doc) \/ fault = "save"
    THEN [ret |-> <<>>, st_error |-> <<DocxError>>]
    ELSE [ret |-> <<saved_docx(doc, saved_at)>>, st_error |-> <<>>]

\* DocumentExporter.create_docx_download: what it returns and what it
\* passes to st.error
create_docx_download(data, format_type, fault, saved_at) ==
    save_or_report(assemble_docx(data, format_type, fault), fault, saved_at)

\* DocumentExporter.create_subtitle_download
create_subtitle_download(data, subtitle_format) ==
    IF subtitle_format = <<"s", "r", "t">>
    THEN IF format_srt_subtitles_raises(data)
         THEN [ret |-> <<>>, st_error |-> <<SubtitleError>>]
         ELSE [ret |-> <<encode(format_srt_subtitles(data))>>, st_error |-> <<>>]
    ELSE IF subtitle_format = <<"v", "t", "t">>
    THEN IF format_vtt_subtitles_raises(data)
         THEN [ret |-> <<>>, st_error |-> <<SubtitleError>>]
         ELSE [ret |-> <<encode(format_vtt_subtitles(data))>>, st_error |-> <<>>]
    ELSE [ret |-> <<>>, st_error |-> <<>>]

(***************************************************************************)
(* The transcription results the renderers are run on.                     *)
(***************************************************************************)
MaxSegments == 3
MaxWords == 9

WholeMs(k) == [ms |-> k, sub |-> 0]

SegmentTexts == {<<>>, <<" ">>, <<"h", "i">>, <<" ", "o", "k", " ">>}
WordTexts == {<<" ">>, <<"g", "o">>}

\* segments one after the other, step milliseconds apart
SegmentSteps == {1001, 2300, 180000000}

SegmentsOf(texts, step) ==
    [i \in 1..Len(texts) |->
        [id |-> i - 1, start |-> WholeMs((i - 1) * step),
         end |-> WholeMs(i * step - 200), text |-> texts[i]]]

\* words one after the other, 0.4 s apart
WordsOf(texts) ==
    [i \in 1..Len(texts) |->
        [word |-> texts[i], start |-> WholeMs((i - 1) * 400),
         end |-> WholeMs((i - 1) * 400 + 300)]]

\* word lists long enough for the document's lines: n words, those at the
\* positions of marked ending a sentence, the one at blank (if any) blank
MaxDocWords == 13
SentenceMarks == <<".", "!", "?">>

LineWordsOf(n, marked, blank) ==
    [i \in 1..n |->
        IF i = blank THEN <<" ">>
        ELSE IF i \in marked THEN <<"o", "k", SentenceMarks[(i % 3) + 1]>>
        ELSE <<"g", "o">>]
SeqsUpTo(S, n) == UNION {[1..m -> S] : m \in 0..n}

\* a processed result as the engine hands it over
ResultOf(segments, words) ==
    [text |-> join(<<" ">>, [i \in 1..Len(segments) |-> segments[i].text]),
     segments |-> segments,
     words |-> words,
     language |-> <<"e", "n">>,
     duration |-> IF segments # <<>> THEN segments[Len(segments)].end ELSE Time0,
     word_count |-> Cardinality({i \in 1..Len(words) : strip(words[i].word) # <<>>}),
     segment_count |-> Len(segments)]

SegmentResults ==
    {ResultOf(SegmentsOf(tx, step), <<>>) :
        tx \in SeqsUpTo(SegmentTexts, MaxSegments), step \in SegmentSteps}

WordResults ==
    {ResultOf(SegmentsOf(<<<<"h", "i">>>>, 2300), WordsOf(tx)) : tx \in SeqsUpTo(WordTexts, MaxWords)}

DocWordResults ==
    {ResultOf(SegmentsOf(<<<<"h", "i">>>>, 2300), WordsOf(LineWordsOf(n, {p, q} \ {0}, b))) :
        n \in (MaxDocWords - 3)..MaxDocWords, p \in 0..MaxDocWords, q \in {0, MaxDocWords - 1},
        b \in {0, 1, 5}}
\* dicts with the statistics only, as get_transcription_summary is tested
SummaryDurations == {0, 1500, 2300, 90000, 3661001, 360000000}
SummaryWordCounts == {0, 3, 150, 1234}
SummaryTextLengths == {0, 16, 1234}

SummaryResults ==
    {[text |-> Repeat("x", n), duration |-> WholeMs(k), word_count |-> w,
      segment_count |-> w \div 3, language |-> l] :
        n \in SummaryTextLengths, k \in SummaryDurations, w \in SummaryWordCounts,
        l \in {<<"e", "n">>, UnknownLanguage}}

\* results with an entry whose start and end are None
BadWords(texts, k) ==
    [WordsOf(texts) EXCEPT ![k].start = NoneTime, ![k].end = NoneTime]

BadSegments(texts, k) ==
    [SegmentsOf(texts, 2300) EXCEPT ![k].start = NoneTime, ![k].end = NoneTime]

MalformedResults ==
    {ResultOf(SegmentsOf(<<<<"h", "i">>>>, 2300), BadWords(tx, k)) :
        tx \in [1..2 -> {<<"g", "o">>, <<" ">>, <<"o", "k", ".">>}], k \in 1..2}
    \cup {ResultOf(BadSegments(tx, k), WordsOf(<<<<"g", "o">>>>)) :
              tx \in [1..2 -> {<<"h", "i">>, <<" ">>}], k \in 1..2}

\* dicts that lack keys
PartialResults == {NoData, [text |-> <<" ", "h", "i", " ">>, duration |-> WholeMs(1500), word_count |-> 3]}

Results ==
    SegmentResults \cup WordResults \cup DocWordResults \cup SummaryResults
    \cup PartialResults \cup MalformedResults

(***************************************************************************)
(* The renderers on a given result: one call after the other.              *)
(***************************************************************************)
Init ==
    /\ transcription_data \in Results
    /\ seconds = Time0
    /\ base_name = <<>>
    /\ call = NoCall
    /\ ret = None
    /\ Quiet
    /\ EngineNew

\* the text stripped in place while it is read
RendererFrame_stripping ==
    /\ transcription_data' = [transcription_data EXCEPT !.text = strip(@)]
    /\ UNCHANGED <<seconds, base_name, session_state, temp_dir, downloads_dir, attempts, conversion, download_buttons, now,
                   remembered, pc, progress, model, result>>
\* the frame of a call of a renderer: it reads its arguments only
RendererFrame ==
    UNCHANGED <<transcription_data, seconds, base_name, session_state, temp_dir, downloads_dir, attempts, conversion, download_buttons, now,
                remembered, pc, progress, model, result>>

Returns(op, value) ==
    /\ call' = [op |-> op, raised |-> FALSE]
    /\ ret' = value
    /\ st_error' = <<>>
    /\ RendererFrame

\* the call left by an exception, which goes up to the caller
Raises(op) ==
    /\ call' = [op |-> op, raised |-> TRUE]
    /\ ret' = None
    /\ st_error' = <<>>
    /\ RendererFrame

FormatWordTimestamps ==
    IF format_word_timestamps_raises(transcription_data)
    THEN Raises("format_word_timestamps")
    ELSE Returns("format_word_timestamps", format_word_timestamps(transcription_data))

FormatSegmentTimestamps ==
    IF format_segment_timestamps_raises(transcription_data)
    THEN Raises("format_segment_timestamps")
    ELSE Returns("format_segment_timestamps", format_segment_timestamps(transcription_data))

FormatSrtSubtitles ==
    IF format_srt_subtitles_raises(transcription_data)
    THEN Raises("format_srt_subtitles")
    ELSE Returns("format_srt_subtitles", format_srt_subtitles(transcription_data))

FormatVttSubtitles ==
    IF format_vtt_subtitles_raises(transcription_data)
    THEN Raises("format_vtt_subtitles")
    ELSE Returns("format_vtt_subtitles", format_vtt_subtitles(transcription_data))

GetTranscriptionSummary ==
    IF get_transcription_summary_raises(transcription_data)
    THEN Raises("get_transcription_summary")
    ELSE Returns("get_transcription_summary", get_transcription_summary(transcription_data))

\* a section of the document written, or left by an exception
Written(op, doc) == IF Raised(doc) THEN Raises(op) ELSE Returns(op, doc)

AddWordTimestampsSection ==
    Written("_add_word_timestamps_section",
            add_word_timestamps_section(NewDocument, transcription_data))

AddSegmentTimestampsSection ==
    Written("_add_segment_timestamps_section",
            add_segment_timestamps_section(NewDocument, transcription_data))

Next ==
    \/ FormatWordTimestamps
    \/ FormatSegmentTimestamps
    \/ FormatSrtSubtitles
    \/ FormatVttSubtitles
    \/ GetTranscriptionSummary
    \/ AddWordTimestampsSection
    \/ AddSegmentTimestampsSection

Spec == Init /\ [][Next]_vars

(***************************************************************************)
(* DocumentExporter.get_filename on its own.                               *)
(***************************************************************************)
\* config.DEFAULT_FILENAME_PREFIX
DEFAULT_FILENAME_PREFIX == <<"t", "r", "a", "n", "s", "c", "r", "i", "p", "t", "i", "o", "n">>

SeqRange(s) == {s[i] : i \in 1..Len(s)}

\* c.isalnum(), on the characters used here
isalnum(c) == c \in SeqRange(LowerChars) \cup SeqRange(UpperChars) \cup SeqRange(DigitChars)

\* letters and digits only
KeptInName_alnum(c) == isalnum(c)
KeptInName(c) == isalnum(c) \/ c \in {" ", "-", "_"}

\* DocumentExporter.get_filename
get_filename(name, format_type, file_format) ==
    LET base == IF name = <<>> THEN DEFAULT_FILENAME_PREFIX ELSE name
        kept == SelectSeq(base, KeptInName)
        clean_name == Replace(kept, " ", "_")
    IN clean_name \o <<"_">> \o format_type \o <<".">> \o file_format

MaxNameLen == 3
NameChars == {"a", "7", " ", "-", "_", "?"}
BaseNames == SeqsUpTo(NameChars, MaxNameLen) \cup {<<"t", "e", "s", "t", " ", "f", "i", "l", "e">>}
FormatTypes == {<<"p", "l", "a", "i", "n", "_", "t", "e", "x", "t">>, <<"s", "u", "b", "t", "i", "t", "l", "e", "s">>}
FileFormats == {<<"t", "x", "t">>, <<"s", "r", "t">>}

InitFilename ==
    /\ base_name \in BaseNames
    /\ transcription_data = NoData
    /\ seconds = Time0
    /\ call = NoCall
    /\ ret = None
    /\ Quiet
    /\ EngineNew

GetFilename ==
    \E format_type \in FormatTypes, file_format \in FileFormats :
        /\ call' = [op |-> "get_filename", format_type |-> format_type,
                    file_format |-> file_format]
        /\ ret' = get_filename(base_name, format_type, file_format)
        /\ UNCHANGED <<transcription_data, seconds, base_name, session_state, temp_dir, downloads_dir, attempts, conversion, st_error,
                       download_buttons, now, remembered, pc, progress, model, result>>

NextFilename == GetFilename

SpecFilename == InitFilename /\ [][NextFilename]_vars

\* s.lower()
lower(s) ==
    [i \in 1..Len(s) |->
        IF \E n \in 1..Len(UpperChars) : UpperChars[n] = s[i]
        THEN LowerChars[CHOOSE n \in 1..Len(UpperChars) : UpperChars[n] = s[i]]
        ELSE s[i]]

\* c is a cased character
cased(c) == c \in SeqRange(LowerChars) \cup SeqRange(UpperChars)

\* s.title(), read from the left: a cased character after a cased one is put
\* in lower case, any other cased character in upper case
RECURSIVE title_from(_, _)
title_from(s, previous_is_cased) ==
    IF s = <<>> THEN <<>>
    ELSE (IF previous_is_cased THEN lower(<<Head(s)>>) ELSE upper(<<Head(s)>>))
         \o title_from(Tail(s), cased(Head(s)))

title(s) == title_from(s, FALSE)

\* the page sign in front of every label, as the source file spells it
PageSign == <<"U+00F0", "U+0178", "U+201C", "U+201E">>

KnownKinds == {<<"p", "l", "a", "i", "n", "_", "t", "e", "x", "t">>, <<"w", "o", "r", "d", "_", "t", "i", "m", "e", "s", "t", "a", "m", "p", "s">>, <<"s", "e", "g", "m", "e", "n", "t", "_", "t", "i", "m", "e", "s", "t", "a", "m", "p", "s">>}

format_names ==
    [k \in KnownKinds |->
        CASE k = <<"p", "l", "a", "i", "n", "_", "t", "e", "x", "t">> -> <<"P", "l", "a", "i", "n", " ", "T", "e", "x", "t">>
          [] k = <<"w", "o", "r", "d", "_", "t", "i", "m", "e", "s", "t", "a", "m", "p", "s">> -> <<"W", "o", "r", "d", " ", "T", "i", "m", "e", "s", "t", "a", "m", "p", "s">>
          [] k = <<"s", "e", "g", "m", "e", "n", "t", "_", "t", "i", "m", "e", "s", "t", "a", "m", "p", "s">> -> <<"S", "e", "g", "m", "e", "n", "t", " ", "T", "i", "m", "e", "s", "t", "a", "m", "p", "s">>]

\* every format type title-cased, the known ones too
format_name_titled(format_type) == title(format_type)

\* format_names.get(format_type, format_type.title())
format_name(format_type) == get(format_names, format_type, title(format_type))

\* DocumentExporter.get_download_button_label
get_download_button_label(format_type, file_format) ==
    PageSign \o <<" ", "D", "o", "w", "n", "l", "o", "a", "d", " ">> \o format_name(format_type)
        \o <<" ", "(">> \o upper(file_format) \o <<")">>

(***************************************************************************)
(* Labels for the known format types and for short format types of         *)
(* letters in both cases, digits and underscores.                          *)
(***************************************************************************)
MaxKindLen == 3
KindChars == {"a", "B", "_", "3"}
LabelKinds == KnownKinds \cup {<<"s", "u", "b", "t", "i", "t", "l", "e", "s">>} \cup SeqsUpTo(KindChars, MaxKindLen)
LabelFileFormats == {<<"t", "x", "t">>, <<"d", "o", "c", "x">>, <<"S", "r", "t">>, <<"v", "2">>, <<>>}

InitLabel ==
    /\ base_name = <<>>
    /\ transcription_data = NoData
    /\ seconds = Time0
    /\ call = NoCall
    /\ ret = None
    /\ Quiet
    /\ EngineNew

GetDownloadButtonLabel ==
    \E format_type \in LabelKinds, file_format \in LabelFileFormats :
        /\ call' = [op |-> "get_download_button_label", raised |-> FALSE,
                    format_type |-> format_type, file_format |-> file_format]
        /\ ret' = get_download_button_label(format_type, file_format)
        /\ UNCHANGED <<transcription_data, seconds, base_name, session_state, temp_dir, downloads_dir, attempts, conversion, st_error,
                       download_buttons, now, remembered, pc, progress, model, result>>

NextLabel == GetDownloadButtonLabel

SpecLabel == InitLabel /\ [][NextLabel]_vars

\* what get_filename returned, without its "_<format_type>.<file_format>" end
FilenameSuffix == <<"_">> \o call.format_type \o <<".">> \o call.file_format
FilenameBase == SubSeq(ret, 1, Len(ret) - Len(FilenameSuffix))

\* C2: the base of the returned filename is never empty: it is the default
\* prefix when base_name is empty and when no character of base_name is kept.
C2_DefaultWhenNothingKept ==
    call.op = "get_filename" =>
        /\ Len(ret) > Len(FilenameSuffix)
        /\ SubSeq(ret, Len(ret) - Len(FilenameSuffix) + 1, Len(ret)) = FilenameSuffix
        /\ FilenameBase # <<>>
        /\ (\A i \in 1..Len(base_name) : ~KeptInName(base_name[i]))
              => FilenameBase = DEFAULT_FILENAME_PREFIX

(***************************************************************************)
(* The results page: UIComponents.render_results_section and the exports   *)
(* it offers.  A page in the making is the download buttons placed so far, *)
(* the messages passed to st.error, and whether an exception has ended it. *)
(***************************************************************************)
TextMime == "text/plain"
VttMime == "text/vtt"
DocxMime == "application/vnd.openxmlformats-officedocument.wordprocessingml.document"

\* st.download_button(data=..., file_name=..., mime=...)
DownloadButton(data, file_name, mime) ==
    [data |-> data, file_name |-> file_name, mime |-> mime]

\* not None, empty or not
truthy_not_none(optional_bytes) == optional_bytes # <<>>
\* `if docx_data:` on an Optional[bytes]: not None and not empty
truthy(optional_bytes) ==
    /\ optional_bytes # <<>>
    /\ "utf8" \in DOMAIN optional_bytes[1] => optional_bytes[1].utf8 # <<>>

\* a download button for the bytes made, if there are any, and the message
\* of the failure, if there is one
offer(page, made, file_name, mime) ==
    [page EXCEPT
        !.st_error = @ \o made.st_error,
        !.buttons = IF truthy(made.ret)
                    THEN Append(@, DownloadButton(made.ret[1], file_name, mime))
                    ELSE @]

\* the TXT column of a section (components.py lines 340-348)
txt_column(page, content, source_filename, format_type) ==
    [page EXCEPT !.buttons =
        Append(@, DownloadButton(create_text_download(content, source_filename),
                                 get_filename(source_filename, format_type, <<"t", "x", "t">>),
                                 TextMime))]

\* the DOCX column of a section (components.py lines 350-358)
docx_column(page, data, source_filename, format_type, fault, clock) ==
    offer(page, create_docx_download(data, format_type, fault, clock),
          get_filename(source_filename, format_type, <<"d", "o", "c", "x">>), DocxMime)

\* UIComponents._render_plain_text_section
render_plain_text_section(page, data, source_filename, fault, clock) ==
    IF page.raised THEN page
    ELSE docx_column(txt_column(page, format_plain_text(data), source_filename,
                                <<"p", "l", "a", "i", "n", "_", "t", "e", "x", "t">>),
                     data, source_filename, <<"p", "l", "a", "i", "n", "_", "t", "e", "x", "t">>, fault, clock)

\* UIComponents._render_word_timestamps_section
render_word_timestamps_section(page, data, source_filename, fault, clock) ==
    IF page.raised THEN page
    ELSE IF format_word_timestamps_raises(data) THEN [page EXCEPT !.raised = TRUE]
    ELSE docx_column(txt_column(page, format_word_timestamps(data), source_filename,
                                <<"w", "o", "r", "d", "_", "t", "i", "m", "e", "s", "t", "a", "m", "p", "s">>),
                     data, source_filename, <<"w", "o", "r", "d", "_", "t", "i", "m", "e", "s", "t", "a", "m", "p", "s">>, fault, clock)

\* UIComponents._render_segment_timestamps_section
render_segment_timestamps_section(page, data, source_filename, fault, clock) ==
    IF page.raised THEN page
    ELSE IF format_segment_timestamps_raises(data) THEN [page EXCEPT !.raised = TRUE]
    ELSE docx_column(txt_column(page, format_segment_timestamps(data), source_filename,
                                <<"s", "e", "g", "m", "e", "n", "t", "_", "t", "i", "m", "e", "s", "t", "a", "m", "p", "s">>),
                     data, source_filename, <<"s", "e", "g", "m", "e", "n", "t", "_", "t", "i", "m", "e", "s", "t", "a", "m", "p", "s">>, fault, clock)

\* one column of UIComponents._render_additional_exports
subtitle_column(page, data, source_filename, subtitle_format, mime) ==
    offer(page, create_subtitle_download(data, subtitle_format),
          get_filename(source_filename, <<"s", "u", "b", "t", "i", "t", "l", "e", "s">>, subtitle_format), mime)

\* UIComponents._render_additional_exports
render_additional_exports(page, data, source_filename) ==
    IF page.raised THEN page
    ELSE subtitle_column(subtitle_column(page, data, source_filename, <<"s", "r", "t">>, TextMime),
                         data, source_filename, <<"v", "t", "t">>, VttMime)

\* the summary metrics at the head of the page (components.py lines 304-309)
summary_metrics(data) ==
    [buttons |-> <<>>, st_error |-> <<>>, raised |-> get_transcription_summary_raises(data)]

\* UIComponents.render_results_section: the summary, then the four sections
\* one after the other; each starts with `page.raised`, the exception of an
\* earlier one, which ends the page there
render_results_section(data, source_filename, fault, clock) ==
    render_additional_exports(
        render_segment_timestamps_section(
            render_word_timestamps_section(
                render_plain_text_section(summary_metrics(data),
                                          data, source_filename, fault, clock),
                data, source_filename, fault, clock),
            data, source_filename, fault, clock),
        data, source_filename)

(***************************************************************************)
(* The renderers and the exporter on a given result, malformed entries     *)
(* included.                                                               *)
(***************************************************************************)
MaxExportEntries == 2
DocxFormatTypes == {<<"p", "l", "a", "i", "n", "_", "t", "e", "x", "t">>, <<"w", "o", "r", "d", "_", "t", "i", "m", "e", "s", "t", "a", "m", "p", "s">>, <<"s", "e", "g", "m", "e", "n", "t", "_", "t", "i", "m", "e", "s", "t", "a", "m", "p", "s">>}
SubtitleFormats == {<<"s", "r", "t">>, <<"v", "t", "t">>, <<"t", "x", "t">>}

ExportSegmentTexts == {<<>>, <<<<" ">>>>, <<<<"h", "i">>>>, <<<<" ">>, <<"h", "i">>>>}

ExportResults ==
    {ResultOf(SegmentsOf(tx, 2300), WordsOf(wx)) :
        tx \in ExportSegmentTexts,
        wx \in SeqsUpTo({<<"g", "o">>, <<"o", "k", ".">>}, MaxExportEntries)}
    \cup PartialResults \cup MalformedResults

InitExport ==
    /\ transcription_data \in ExportResults
    /\ seconds = Time0
    /\ base_name = <<"m", "y", " ", "t", "a", "l", "k">>
    /\ call = NoCall
    /\ ret = None
    /\ Quiet
    /\ EngineNew

\* the exporter hands back what it made and has reported its failure
Made(made) ==
    /\ ret' = made.ret
    /\ st_error' = made.st_error
    /\ RendererFrame

\* the page as the browser shows it; render_results_section returns nothing
Shown(page, fault) ==
    /\ call' = [op |-> "render_results_section", raised |-> page.raised, fault |-> fault]
    /\ ret' = None
    /\ st_error' = page.st_error
    /\ download_buttons' = page.buttons
    /\ UNCHANGED <<transcription_data, seconds, base_name, session_state, temp_dir, downloads_dir, attempts, conversion, now, remembered,
                   pc, progress, model, result>>

FormatPlainText ==
    Returns("format_plain_text", format_plain_text(transcription_data))

CreateDocxDownload ==
    \E format_type \in DocxFormatTypes, fault \in DocxFaults :
        /\ call' = [op |-> "create_docx_download", raised |-> FALSE,
                    format_type |-> format_type, fault |-> fault]
        /\ Made(create_docx_download(transcription_data, format_type, fault, now))

CreateSubtitleDownload ==
    \E subtitle_format \in SubtitleFormats :
        /\ call' = [op |-> "create_subtitle_download", raised |-> FALSE,
                    subtitle_format |-> subtitle_format]
        /\ Made(create_subtitle_download(transcription_data, subtitle_format))

RenderResultsSection ==
    \E fault \in {"none", "save"} :
        Shown(render_results_section(transcription_data, base_name, fault, now), fault)

NextExport ==
    \/ RenderResultsSection
    \/ FormatPlainText
    \/ FormatWordTimestamps
    \/ FormatSegmentTimestamps
    \/ FormatSrtSubtitles
    \/ FormatVttSubtitles
    \/ GetTranscriptionSummary
    \/ AddWordTimestampsSection
    \/ AddSegmentTimestampsSection
    \/ CreateDocxDownload
    \/ CreateSubtitleDownload

SpecExport == InitExport /\ [][NextExport]_vars

(***************************************************************************)
(* The same renderer called twice on the same result, the wall clock       *)
(* moving on in between.                                                   *)
(***************************************************************************)
MaxClock == 1

TwiceResults ==
    {NoData,
     ResultOf(<<>>, <<>>),
     ResultOf(SegmentsOf(<<<<"h", "i">>, <<" ", "o", "k", " ">>>>, 2300), WordsOf(<<<<"g", "o">>, <<"o", "k", ".">>, <<"g", "o">>>>)),
     ResultOf(SegmentsOf(<<<<"h", "i">>>>, 1001), BadWords(<<<<"o", "k", ".">>, <<"g", "o">>>>, 2)),
     ResultOf(BadSegments(<<<<"h", "i">>, <<"h", "o">>>>, 1), WordsOf(<<<<"g", "o">>>>))}

InitTwice ==
    /\ transcription_data \in TwiceResults
    /\ seconds = Time0
    /\ base_name = <<>>
    /\ call = NoCall
    /\ ret = None
    /\ Quiet
    /\ EngineNew

\* time passes between two calls
Tick ==
    /\ now < MaxClock
    /\ now' = now + 1
    /\ UNCHANGED <<transcription_data, seconds, base_name, session_state, temp_dir, downloads_dir, attempts, conversion, call, ret, st_error,
                   download_buttons, remembered, pc, progress, model, result>>

\* the caller keeps the call just made and what came back of it
Remember ==
    /\ call.op # "none"
    /\ remembered = <<>>
    /\ remembered' = <<[call |-> call, ret |-> ret]>>
    /\ UNCHANGED <<transcription_data, seconds, base_name, session_state, temp_dir, downloads_dir, attempts, conversion, call, ret, st_error,
                   download_buttons, now, pc, progress, model, result>>

NextTwice ==
    \/ CreateDocxDownload
    \/ CreateSubtitleDownload
    \/ FormatPlainText
    \/ FormatWordTimestamps
    \/ FormatSegmentTimestamps
    \/ FormatSrtSubtitles
    \/ FormatVttSubtitles
    \/ GetTranscriptionSummary
    \/ Tick
    \/ Remember

SpecTwice == InitTwice /\ [][NextTwice]_vars

(***************************************************************************)
(* format_plain_text on texts with whitespace of several kinds at their    *)
(* ends and inside.                                                        *)
(***************************************************************************)
MaxTextLen == 4
TextChars == {" ", "\t", "U+00A0", "a", "b"}

PlainTextResults ==
    {[text |-> tx] : tx \in SeqsUpTo(TextChars, MaxTextLen)}
    \cup {[language |-> <<"e", "n">>], [segments |-> <<>>, words |-> <<>>]}

InitPlainText ==
    /\ transcription_data \in PlainTextResults
    /\ seconds = Time0
    /\ base_name = <<>>
    /\ call = NoCall
    /\ ret = None
    /\ Quiet
    /\ EngineNew

NextPlainText == FormatPlainText

SpecPlainText == InitPlainText /\ [][NextPlainText]_vars

(***************************************************************************)
(* The word section of the document on short word lists, with sentence     *)
(* ends and blank words at every position, the last one too.               *)
(***************************************************************************)
MaxLineWords == 4
LineWordTexts == {<<"g", "o">>, <<"o", "k", ".">>, <<" ">>}

DocLineResults ==
    {ResultOf(SegmentsOf(<<<<"h", "i">>>>, 2300), WordsOf(tx)) :
        tx \in SeqsUpTo(LineWordTexts, MaxLineWords)}
    \cup {ResultOf(SegmentsOf(<<<<"h", "i">>>>, 2300),
                   WordsOf(LineWordsOf(MaxLineWords + 8, {}, b))) :
              b \in {0, MaxLineWords + 8}}

InitDocLines ==
    /\ transcription_data \in DocLineResults
    /\ seconds = Time0
    /\ base_name = <<>>
    /\ call = NoCall
    /\ ret = None
    /\ Quiet
    /\ EngineNew

NextDocLines == AddWordTimestampsSection

SpecDocLines == InitDocLines /\ [][NextDocLines]_vars

(***************************************************************************)
(* WhisperEngine: _process_transcription_result and, step by step,         *)
(* transcribe_audio.                                                       *)
(***************************************************************************)
\* a text that is None where the code expects a str: one element that is
\* no character
NoneText == <<"None">>

\* .strip() on None raises AttributeError
strip_raises(text) == text = NoneText

\* the entry made of a raw segment (lines 180-186)
segment_entry(segment) ==
    [id |-> get(segment, "id", None),
     start |-> get(segment, "start", NoneTime),
     end |-> get(segment, "end", NoneTime),
     text |-> strip(get(segment, "text", <<>>)),
     words |-> get(segment, "words", <<>>)]

\* the entry made of a raw word (lines 192-197); probability in thousandths
word_entry(word) ==
    [word |-> strip(get(word, "word", <<>>)),
     start |-> get(word, "start", NoneTime),
     end |-> get(word, "end", NoneTime),
     probability |-> get(word, "probability", 0)]

\* for segment in segments: for word in segment.get("words", []): ...
RECURSIVE flatten_words(_, _)
flatten_words(segments, i) ==
    IF i > Len(segments) THEN <<>>
    ELSE [k \in 1..Len(segments[i].words) |-> word_entry(segments[i].words[k])]
         \o flatten_words(segments, i + 1)

\* every word counted, blank or not
word_count_of_all(words) == Len(words)

\* len([w for w in words if w["word"]])
word_count_of(words) == Cardinality({k \in 1..Len(words) : words[k].word # <<>>})

\* the statements of the try block raise (a text or a word that is None)
process_raises(whisper_result) ==
    \/ strip_raises(get(whisper_result, "text", <<>>))
    \/ \E i \in 1..Len(get(whisper_result, "segments", <<>>)) :
          \/ strip_raises(get(whisper_result.segments[i], "text", <<>>))
          \/ \E k \in 1..Len(get(whisper_result.segments[i], "words", <<>>)) :
                strip_raises(get(whisper_result.segments[i].words[k], "word", <<>>))

ProcessingError == "Error processing transcription results"

\* the dict returned from the except clause (lines 217-225)
fallback_result(whisper_result) ==
    [text |-> get(whisper_result, "text", <<>>),
     segments |-> <<>>,
     words |-> <<>>,
     language |-> UnknownLanguage,
     duration |-> Time0,
     word_count |-> 0,
     segment_count |-> 0]

\* the dict returned from the try block (lines 174-214), given its segments
\* and its words
processed(whisper_result, segments, words) ==
    [text |-> strip(get(whisper_result, "text", <<>>)),
     segments |-> segments,
     words |-> words,
     language |-> get(whisper_result, "language", UnknownLanguage),
     duration |-> IF segments # <<>> THEN segments[Len(segments)].end ELSE Time0,
     word_count |-> word_count_of(words),
     segment_count |-> Len(segments)]

processed_from(whisper_result, segments) ==
    processed(whisper_result, segments, flatten_words(segments, 1))

\* WhisperEngine._process_transcription_result: the dict it returns and
\* what it passes to st.error
process_transcription_result(whisper_result) ==
    IF process_raises(whisper_result)
    THEN [data |-> fallback_result(whisper_result), st_error |-> <<ProcessingError>>]
    ELSE [data |-> processed_from(whisper_result,
                       [i \in 1..Len(get(whisper_result, "segments", <<>>)) |->
                           segment_entry(whisper_result.segments[i])]),
          st_error |-> <<>>]

\* the fractions transcribe_audio reports, in tenths
StartingFraction == 1
ProcessingFraction == 9
CompleteFraction == 10

LoadError == "Failed to load Whisper model"
TranscriptionError == "Transcription failed"

\* what model.transcribe may hand back
MaxRawSegments == 2

RawWord(text) ==
    [word |-> text, start |-> WholeMs(0), end |-> WholeMs(300), probability |-> 987]

RawWordLists ==
    {<<>>,
     <<RawWord(<<" ", "g", "o">>), RawWord(<<" ">>)>>,
     <<RawWord(<<"o", "k", ".">>)>>,
     <<RawWord(NoneText)>>,
     <<[start |-> WholeMs(100), end |-> WholeMs(200)]>>}

RawSegmentsAt(i) ==
    {[id |-> i - 1, start |-> WholeMs((i - 1) * 2300), end |-> WholeMs(i * 2300 - 200),
      text |-> tx, words |-> ws] : tx \in {<<" ", "h", "i">>, <<" ">>}, ws \in RawWordLists}
    \cup {[id |-> i - 1, text |-> <<" ", "h", "i">>],
          [id |-> i - 1, start |-> WholeMs((i - 1) * 2300), end |-> WholeMs(i * 2300 - 200),
           text |-> NoneText, words |-> <<RawWord(<<" ", "g", "o">>)>>]}

RawSegmentLists ==
    UNION {{s \in [1..n -> UNION {RawSegmentsAt(i) : i \in 1..n}] :
                \A i \in 1..n : s[i] \in RawSegmentsAt(i)} : n \in 0..MaxRawSegments}

RawResults ==
    {[text |-> <<" ", "h", "i", " ", "o", "k", ".", " ">>, segments |-> s, language |-> <<"e", "n">>] : s \in RawSegmentLists}
    \cup {[segments |-> s] : s \in RawSegmentLists}
    \cup {[text |-> NoneText, segments |-> <<>>, language |-> <<"e", "n">>], [text |-> <<"h", "i">>]}

InitEngine ==
    /\ transcription_data = NoData
    /\ seconds = Time0
    /\ base_name = <<>>
    /\ call = NoCall
    /\ ret = None
    /\ Quiet
    /\ EngineNew

\* if progress_callback: progress_callback(fraction, message)
report(fraction) ==
    IF call.progress_callback THEN Append(progress, fraction) ELSE progress

\* what transcribe_audio never touches
EngineFrame == UNCHANGED <<seconds, base_name, session_state, temp_dir, downloads_dir, attempts, conversion, download_buttons, now, remembered>>

\* transcribe_audio(audio_path, progress_callback) is entered: nothing
\* transcribed or processed yet
TranscribeAudio ==
    /\ pc \in {"idle", "returned"}
    /\ \E progress_callback \in BOOLEAN :
          call' = [op |-> "transcribe_audio", raised |-> FALSE,
                   progress_callback |-> progress_callback, failed |-> "no"]
    /\ pc' = "load_model"
    /\ progress' = <<>>
    /\ st_error' = <<>>
    /\ result' = <<>>
    /\ ret' = None
    /\ transcription_data' = NoData
    /\ UNCHANGED model
    /\ EngineFrame

\* load_model: whisper.load_model returns the model
LoadModelLoads ==
    /\ pc = "load_model"
    /\ model = None
    /\ model' = "loaded"
    /\ pc' = "starting"
    /\ UNCHANGED <<transcription_data, call, ret, st_error, progress, result>>
    /\ EngineFrame

\* load_model: the model is there from an earlier call
LoadModelKept ==
    /\ pc = "load_model"
    /\ model # None
    /\ pc' = "starting"
    /\ UNCHANGED <<transcription_data, call, ret, st_error, progress, result, model>>
    /\ EngineFrame

\* load_model: whisper.load_model raises; load_model returns False and
\* transcribe_audio returns None
LoadModelFails ==
    /\ pc = "load_model"
    /\ model = None
    /\ st_error' = Append(st_error, LoadError)
    /\ call' = [call EXCEPT !.failed = "load_model"]
    /\ ret' = <<>>
    /\ pc' = "returned"
    /\ UNCHANGED <<transcription_data, progress, result, model>>
    /\ EngineFrame

ReportStarting ==
    /\ pc = "starting"
    /\ progress' = report(StartingFraction)
    /\ pc' = "transcribe"
    /\ UNCHANGED <<transcription_data, call, ret, st_error, result, model>>
    /\ EngineFrame

\* self.model.transcribe(...) returns
Transcribe ==
    /\ pc = "transcribe"
    /\ \E whisper_result \in RawResults : result' = <<whisper_result>>
    /\ pc' = "processing"
    /\ UNCHANGED <<transcription_data, call, ret, st_error, progress, model>>
    /\ EngineFrame

\* the except clause made to report completion before it returns
TranscribeRaises_reporting ==
    /\ pc = "transcribe"
    /\ st_error' = Append(st_error, TranscriptionError)
    /\ call' = [call EXCEPT !.failed = "transcribe"]
    /\ progress' = report(CompleteFraction)
    /\ ret' = <<>>
    /\ pc' = "returned"
    /\ UNCHANGED <<transcription_data, result, model>>
    /\ EngineFrame

\* self.model.transcribe(...) raises: the except clause (lines 161-163)
TranscribeRaises ==
    /\ pc = "transcribe"
    /\ st_error' = Append(st_error, TranscriptionError)
    /\ call' = [call EXCEPT !.failed = "transcribe"]
    /\ ret' = <<>>
    /\ pc' = "returned"
    /\ UNCHANGED <<transcription_data, progress, result, model>>
    /\ EngineFrame

ReportProcessing ==
    /\ pc = "processing"
    /\ progress' = report(ProcessingFraction)
    /\ pc' = "process"
    /\ UNCHANGED <<transcription_data, call, ret, st_error, result, model>>
    /\ EngineFrame

\* processed_result = self._process_transcription_result(result)
Processed(made) ==
    /\ transcription_data' = made.data
    /\ st_error' = st_error \o made.st_error
    /\ pc' = "complete"
    /\ UNCHANGED <<call, ret, progress, result, model>>
    /\ EngineFrame

ProcessTranscriptionResult ==
    /\ pc = "process"
    /\ Processed(process_transcription_result(result[1]))

ReportComplete ==
    /\ pc = "complete"
    /\ progress' = report(CompleteFraction)
    /\ pc' = "return"
    /\ UNCHANGED <<transcription_data, call, ret, st_error, result, model>>
    /\ EngineFrame

\* return processed_result
ReturnProcessed ==
    /\ pc = "return"
    /\ ret' = <<transcription_data>>
    /\ pc' = "returned"
    /\ UNCHANGED <<transcription_data, call, st_error, progress, result, model>>
    /\ EngineFrame

NextEngine ==
    \/ TranscribeAudio
    \/ LoadModelLoads
    \/ LoadModelKept
    \/ LoadModelFails
    \/ ReportStarting
    \/ Transcribe
    \/ TranscribeRaises
    \/ ReportProcessing
    \/ ProcessTranscriptionResult
    \/ ReportComplete
    \/ ReturnProcessed

SpecEngine == InitEngine /\ [][NextEngine]_vars

(***************************************************************************)
(* The session of the application: one action for each run of the script   *)
(* (main.py), from WhisperTranscriptionApp() to st.rerun() or to the end   *)
(* of the script.  pc tells whether the run ended in st.rerun(), so that   *)
(* the next run starts at once and with no button pressed, or at the end   *)
(* of the script, so that the next run starts when the user presses a      *)
(* button.  call names the button of the run.                              *)
(***************************************************************************)
\* what download_audio leaves in the downloads directory
YouTubeFiles == {"talk.wav", "song.wav"}
\* what convert_to_optimal_format leaves in the temporary directory
UploadedFiles == {"processed_upload_memo.mp3", "processed_upload_call.mp3"}
AudioFiles == YouTubeFiles \cup UploadedFiles

\* Path.stem of the audio files
stem(audio_file) ==
    CASE audio_file = "talk.wav" -> "talk"
      [] audio_file = "song.wav" -> "song"
      [] audio_file = "processed_upload_memo.mp3" -> "processed_upload_memo"
      [] audio_file = "processed_upload_call.mp3" -> "processed_upload_call"

\* what WhisperEngine.transcribe_audio makes of an audio file when it does
\* not fail: a dict that is not empty, named here after the file
transcribe_audio(audio_file) ==
    CASE audio_file = "talk.wav" -> "transcription of talk.wav"
      [] audio_file = "song.wav" -> "transcription of song.wav"
      [] audio_file = "processed_upload_memo.mp3"
             -> "transcription of processed_upload_memo.mp3"
      [] audio_file = "processed_upload_call.mp3"
             -> "transcription of processed_upload_call.mp3"

\* _handle_input_stage, a section having returned audio_file
audio_provided(session, audio_file) ==
    [session EXCEPT !.audio_file = audio_file,
                    !.source_filename = stem(audio_file),
                    !.processing_stage = "processing"]

\* _handle_processing_stage, render_transcription_section having returned a
\* result
result_stored(session, transcription_result) ==
    [session EXCEPT !.transcription_result = transcription_result,
                    !.processing_stage = "results"]

\* the audio file dropped and the stage left as it is
select_different_file_staying(session) ==
    [session EXCEPT !.audio_file = None]
\* _handle_processing_stage, "Select Different File" pressed
select_different_file(session) ==
    [session EXCEPT !.processing_stage = "input", !.audio_file = None]

\* the audio file and its name cleared, the result kept
cleanup_session_keeping_result(session) ==
    [session EXCEPT !.audio_file = None, !.source_filename = None]
\* WhisperTranscriptionApp._cleanup_session
cleanup_session(session) ==
    [session EXCEPT !.audio_file = None,
                    !.transcription_result = None,
                    !.source_filename = None]

\* _handle_results_stage, "Process Another File" pressed
process_another_file(session) ==
    [cleanup_session(session) EXCEPT !.processing_stage = "input"]

\* _handle_results_stage, "Re-transcribe Current File" pressed
retranscribe_current_file(session) ==
    [session EXCEPT !.transcription_result = None,
                    !.processing_stage = "processing"]

\* the stage handlers send a session that lacks what its stage needs back to
\* the input stage, before they render any button
sent_back(session) ==
    \/ session.processing_stage = "processing" /\ session.audio_file = None
    \/ session.processing_stage = "results" /\ session.transcription_result = None

back_to_input(session) == [session EXCEPT !.processing_stage = "input"]

\* a run of the script ends: in st.rerun() or at the end of the script
RunEnds(button, session, rerun) ==
    /\ session_state' = session
    /\ pc' = IF rerun THEN "rerun" ELSE "shown"
    /\ call' = [op |-> button, raised |-> FALSE]
    /\ UNCHANGED <<transcription_data, seconds, base_name, attempts, conversion,
                   ret, st_error, download_buttons, now, remembered, progress,
                   model, result>>

\* AudioProcessor.cleanup_temp_files and config.cleanup_temp_files: the
\* first deletes the processed uploads until an unlink fails, the second
\* those older than an hour
CleanedUp == temp_dir' \in SUBSET temp_dir

\* a run in which the button of a stage is pressed: what the handler does
\* with the session when it is not sent back
Pressed(button, processing_stage, session, rerun) ==
    /\ pc = "shown"
    /\ initialize_session_state(session_state).processing_stage = processing_stage
    /\ IF sent_back(initialize_session_state(session_state))
       THEN RunEnds(button, back_to_input(initialize_session_state(session_state)), TRUE)
       ELSE RunEnds(button, session, rerun)

InitSession ==
    /\ transcription_data = NoData
    /\ seconds = Time0
    /\ base_name = <<>>
    /\ call = NoCall
    /\ ret = None
    /\ Quiet
    /\ pc = "shown"
    /\ progress = <<>>
    /\ model = None
    /\ result = <<>>

\* "Download & Process Audio" pressed: render_youtube_section returns the
\* path of the WAV file, or None when the download fails
DownloadAndProcessAudio ==
    \E audio_file \in YouTubeFiles, failed \in BOOLEAN :
        /\ IF ~failed
           THEN /\ Pressed("Download & Process Audio", "input",
                       audio_provided(initialize_session_state(session_state), audio_file),
                       TRUE)
                /\ downloads_dir' = downloads_dir \cup {audio_file}
           ELSE /\ Pressed("Download & Process Audio", "input",
                       initialize_session_state(session_state), FALSE)
                /\ UNCHANGED downloads_dir
        /\ UNCHANGED temp_dir

\* "Process Uploaded File" pressed: render_upload_section returns the path
\* of the processed file, or None when the file cannot be processed or the
\* processed file is not valid
ProcessUploadedFile ==
    \E audio_file \in UploadedFiles, outcome \in {"valid", "invalid", "failed"} :
        /\ IF outcome = "valid"
           THEN Pressed("Process Uploaded File", "input",
                   audio_provided(initialize_session_state(session_state), audio_file),
                   TRUE)
           ELSE Pressed("Process Uploaded File", "input",
                   initialize_session_state(session_state), FALSE)
        /\ temp_dir' = IF outcome = "failed" THEN temp_dir
                       ELSE temp_dir \cup {audio_file}
        /\ UNCHANGED downloads_dir

\* "Start Transcription" pressed: the transcription returns a result, or
\* None when it fails
StartTranscription ==
    /\ \E failed \in BOOLEAN :
        IF ~failed
        THEN Pressed("Start Transcription", "processing",
                     result_stored(initialize_session_state(session_state),
                         transcribe_audio(initialize_session_state(session_state).audio_file)),
                     TRUE)
        ELSE Pressed("Start Transcription", "processing",
                     initialize_session_state(session_state), FALSE)
    /\ UNCHANGED <<temp_dir, downloads_dir>>

SelectDifferentFile ==
    /\ Pressed("Select Different File", "processing",
               select_different_file(initialize_session_state(session_state)), TRUE)
    /\ UNCHANGED <<temp_dir, downloads_dir>>

ProcessAnotherFile ==
    /\ Pressed("Process Another File", "results",
               process_another_file(initialize_session_state(session_state)), TRUE)
    /\ CleanedUp
    /\ UNCHANGED downloads_dir

RetranscribeCurrentFile ==
    /\ Pressed("Re-transcribe Current File", "results",
               retranscribe_current_file(initialize_session_state(session_state)), TRUE)
    /\ UNCHANGED <<temp_dir, downloads_dir>>

\* "Reset Session" pressed, in any stage: render_reset_section deletes
\* every key
ResetSession ==
    /\ \E processing_stage \in {"input", "processing", "results"} :
          Pressed("Reset Session", processing_stage, NoSession, TRUE)
    /\ CleanedUp
    /\ UNCHANGED downloads_dir

\* the run that st.rerun() starts: no button is pressed in it
Rerun ==
    /\ pc = "rerun"
    /\ IF sent_back(initialize_session_state(session_state))
       THEN RunEnds("none", back_to_input(initialize_session_state(session_state)), TRUE)
       ELSE RunEnds("none", initialize_session_state(session_state), FALSE)
    /\ UNCHANGED <<temp_dir, downloads_dir>>

NextSession ==
    \/ DownloadAndProcessAudio
    \/ ProcessUploadedFile
    \/ StartTranscription
    \/ SelectDifferentFile
    \/ ProcessAnotherFile
    \/ RetranscribeCurrentFile
    \/ ResetSession
    \/ Rerun

SpecSession == InitSession /\ [][NextSession]_vars

(***************************************************************************)
(* YouTubeDownloader.download_audio, step by step (downloader_clean.py).   *)
(* yt-dlp, ffmpeg and the file system answer as they like; the fractions   *)
(* handed to progress_callback are kept in hundredths.                     *)
(***************************************************************************)
InfoFraction == 10
DownloadingFraction == 20
HookSpan == 50
FinishedFraction == 70
ConvertingFraction == 80
FallbackFraction == 30
FallbackConvertingFraction == 70
DownloadCompleteFraction == 100

\* wav_path.stat().st_size has to be above this
MinWavSize == 10000

\* the calls of progress_hook with status 'downloading' in one download
MaxHookCalls == 2
\* the percentages of _percent_str
Percents == {0, 50, 100}

\* the WAV file of the video
wav_path == "talk.wav"

InfoError == "Could not get video information"
FallbackError == "Fallback download failed"
ConversionError == "WAV conversion failed"
DownloadError == "Download failed - file not created"

\* what ffmpeg may leave: an exit code, and no WAV file or one of some size
Conversions ==
    {[ran |-> TRUE, returncode |-> returncode, exists |-> st_size > 0, st_size |-> st_size] :
        returncode \in {0, 1}, st_size \in {0, MinWavSize, MinWavSize + 1}}

\* ffmpeg exited with 0 and left a WAV file, of any size
converted_any_size(made) == made.returncode = 0 /\ made.exists
\* result.returncode == 0 and wav_path.exists() and wav_path.stat().st_size > 10000
converted(made) == made.returncode = 0 /\ made.exists /\ made.st_size > MinWavSize

\* what download_audio never touches
DownloaderFrame ==
    UNCHANGED <<transcription_data, seconds, base_name, session_state, temp_dir,
                downloads_dir, download_buttons, now, remembered, model, result>>

InitDownload ==
    /\ transcription_data = NoData
    /\ seconds = Time0
    /\ base_name = <<>>
    /\ call = NoCall
    /\ ret = None
    /\ Quiet
    /\ EngineNew

\* download_audio(url, progress_callback) is entered and reports 0.1
DownloadAudio ==
    /\ pc \in {"idle", "returned"}
    /\ \E progress_callback \in BOOLEAN :
          /\ call' = [op |-> "download_audio", raised |-> FALSE,
                      progress_callback |-> progress_callback]
          /\ progress' = IF progress_callback THEN <<InfoFraction>> ELSE <<>>
    /\ pc' = "get_video_info"
    /\ st_error' = <<>>
    /\ ret' = None
    /\ attempts' = 0
    /\ conversion' = NoConversion
    /\ DownloaderFrame

\* get_video_info returns the info and download_audio reports 0.2
GetVideoInfo ==
    /\ pc = "get_video_info"
    /\ progress' = report(DownloadingFraction)
    /\ pc' = "primary"
    /\ UNCHANGED <<call, ret, st_error, attempts, conversion>>
    /\ DownloaderFrame

\* get_video_info returns None: download_audio returns None
GetVideoInfoFails ==
    /\ pc = "get_video_info"
    /\ st_error' = Append(st_error, InfoError)
    /\ pc' = "returned"
    /\ UNCHANGED <<call, ret, progress, attempts, conversion>>
    /\ DownloaderFrame

\* _download_best_audio: ydl.extract_info(url, download=True) is called
PrimaryDownload ==
    /\ pc = "primary"
    /\ attempts' = attempts + 1
    /\ pc' = "downloading"
    /\ UNCHANGED <<call, ret, st_error, progress, conversion>>
    /\ DownloaderFrame

\* progress_hook, status 'downloading': yt-dlp tells percentages that do not
\* go down
ProgressHookDownloading ==
    /\ pc = "downloading"
    /\ call.progress_callback
    /\ Len(progress) < 2 + MaxHookCalls
    /\ \E percent \in Percents :
          /\ DownloadingFraction + (percent * HookSpan) \div 100 >= progress[Len(progress)]
          /\ progress' = report(DownloadingFraction + (percent * HookSpan) \div 100)
    /\ UNCHANGED <<call, ret, st_error, attempts, conversion, pc>>
    /\ DownloaderFrame

\* progress_hook, status 'finished'
ProgressHookFinished ==
    /\ pc = "downloading"
    /\ progress' = report(FinishedFraction)
    /\ pc' = "finished"
    /\ UNCHANGED <<call, ret, st_error, attempts, conversion>>
    /\ DownloaderFrame

\* extract_info returns and _download_best_audio reports 0.8
PrimaryDownloaded ==
    /\ pc = "finished"
    /\ progress' = report(ConvertingFraction)
    /\ pc' = "converting"
    /\ UNCHANGED <<call, ret, st_error, attempts, conversion>>
    /\ DownloaderFrame

\* extract_info raises, before or after the download has finished
PrimaryDownloadRaises ==
    /\ pc \in {"downloading", "finished"}
    /\ pc' = "fallback"
    /\ UNCHANGED <<call, ret, st_error, progress, attempts, conversion>>
    /\ DownloaderFrame

\* download_audio returns what _download_best_audio handed back: the path,
\* after reporting 1.0, when the file exists
Returned(made) ==
    /\ ret' = IF converted(made) THEN wav_path ELSE None
    /\ progress' = IF converted(made) THEN report(DownloadCompleteFraction) ELSE progress
    /\ pc' = "returned"

\* ffmpeg has run on the raw file: the WAV file is returned, or the
\* exception of the failed conversion leads to the fallback
PrimaryConversion ==
    /\ pc = "converting"
    /\ \E made \in Conversions :
          /\ conversion' = made
          /\ IF converted(made)
             THEN Returned(made)
             ELSE pc' = "fallback" /\ UNCHANGED <<ret, progress>>
    /\ UNCHANGED <<call, st_error, attempts>>
    /\ DownloaderFrame

\* subprocess.run raises, or raw_path.unlink() after a conversion
PrimaryConversionRaises ==
    /\ pc = "converting"
    /\ conversion' \in {NoConversion} \cup {made \in Conversions : converted(made)}
    /\ pc' = "fallback"
    /\ UNCHANGED <<call, ret, st_error, progress, attempts>>
    /\ DownloaderFrame

\* _fallback_download reports 0.3 and calls extract_info, which returns;
\* it reports 0.7
FallbackDownload ==
    /\ pc = "fallback"
    /\ attempts' = attempts + 1
    /\ progress' = IF call.progress_callback
                   THEN progress \o <<FallbackFraction, FallbackConvertingFraction>>
                   ELSE progress
    /\ pc' = "fallback_converting"
    /\ UNCHANGED <<call, ret, st_error, conversion>>
    /\ DownloaderFrame

\* _fallback_download reports 0.3 and calls extract_info, which raises:
\* None goes back to download_audio, which reports that no file was
\* created and returns None
FallbackDownloadRaises ==
    /\ pc = "fallback"
    /\ attempts' = attempts + 1
    /\ progress' = report(FallbackFraction)
    /\ st_error' = st_error \o <<FallbackError, DownloadError>>
    /\ pc' = "returned"
    /\ UNCHANGED <<call, ret, conversion>>
    /\ DownloaderFrame

\* ffmpeg has run in _fallback_download
FallbackConversion ==
    /\ pc = "fallback_converting"
    /\ \E made \in Conversions :
          /\ conversion' = made
          /\ Returned(made)
          /\ st_error' = IF converted(made) THEN st_error
                         ELSE st_error \o <<ConversionError, DownloadError>>
    /\ UNCHANGED <<call, attempts>>
    /\ DownloaderFrame

\* subprocess.run raises in _fallback_download, or raw_path.unlink()
FallbackConversionRaises ==
    /\ pc = "fallback_converting"
    /\ conversion' \in {NoConversion} \cup {made \in Conversions : converted(made)}
    /\ st_error' = st_error \o <<FallbackError, DownloadError>>
    /\ pc' = "returned"
    /\ UNCHANGED <<call, ret, progress, attempts>>
    /\ DownloaderFrame

NextDownload ==
    \/ FallbackDownload
    \/ DownloadAudio
    \/ GetVideoInfo
    \/ GetVideoInfoFails
    \/ PrimaryDownload
    \/ ProgressHookDownloading
    \/ ProgressHookFinished
    \/ PrimaryDownloaded
    \/ PrimaryDownloadRaises
    \/ PrimaryConversion
    \/ PrimaryConversionRaises
    \/ FallbackDownloadRaises
    \/ FallbackConversion
    \/ FallbackConversionRaises

SpecDownload == InitDownload /\ [][NextDownload]_vars

\* a call of download_audio goes on until it returns
SpecDownloadFair == SpecDownload /\ WF_vars(NextDownload)

(***************************************************************************)
(* Properties of the renderers.                                            *)
(***************************************************************************)
\* op was called last and returned
Called(op) == call.op = op /\ ~call.raised

\* the lines of a returned string
Lines(s) == split(s, NL)

Segments == get(transcription_data, "segments", <<>>)
Words == get(transcription_data, "words", <<>>)

NonBlank(text) == \E i \in 1..Len(text) : text[i] \notin Whitespace

\* the positions of the segments (words) whose text is not blank, in order
RECURSIVE Ascending(_)
Ascending(S) ==
    IF S = {} THEN <<>>
    ELSE LET least == CHOOSE x \in S : \A y \in S : x <= y
         IN <<least>> \o Ascending(S \ {least})

EmittedSegments == Ascending({i \in 1..Len(Segments) : NonBlank(Segments[i].text)})
EmittedWords == Ascending({i \in 1..Len(Words) : NonBlank(Words[i].word)})

StartsWith(s, prefix) == Len(s) >= Len(prefix) /\ SubSeq(s, 1, Len(prefix)) = prefix
Contains(s, part) ==
    \E i \in 1..(Len(s) - Len(part) + 1) : SubSeq(s, i, i + Len(part) - 1) = part
Count(s, c) == Cardinality({i \in 1..Len(s) : s[i] = c})
IsRule(s, c) == s # <<>> /\ \A i \in 1..Len(s) : s[i] = c

\* C1: the SRT blocks carry the numbers 1, 2, ..., k in the order they are
\* emitted, k the number of segments whose stripped text is not empty.
C1_SrtNumbersAreConsecutive ==
    (Called("format_srt_subtitles") /\ EmittedSegments # <<>>) =>
        /\ Len(Lines(ret)) = 4 * Len(EmittedSegments)
        /\ \A b \in 1..Len(EmittedSegments) : Lines(ret)[4 * (b - 1) + 1] = str(b)

\* s is v with its one '.' replaced by ',' and nothing else changed
CommaForDot(v, s) ==
    /\ Count(v, ".") = 1
    /\ Len(s) = Len(v)
    /\ \A i \in 1..Len(v) : s[i] = IF v[i] = "." THEN "," ELSE v[i]

\* C5: each timestamp of an SRT block is format_timestamp of the segment's
\* time with its one '.' replaced by ',', so the time line of the block is
\* the time line of the segment's VTT cue but for the two separators.
C5_SrtTimestampIsBaseWithComma ==
    (Called("format_srt_subtitles") /\ EmittedSegments # <<>>) =>
        LET srt == Lines(ret)
            vtt == Lines(format_vtt_subtitles(transcription_data))
        IN \A b \in 1..Len(EmittedSegments) :
              LET segment == Segments[EmittedSegments[b]]
                  line == srt[4 * (b - 1) + 2]
                  cue == vtt[2 + 3 * (b - 1) + 1]
                  n == Len(format_timestamp(segment.start))
              IN /\ Len(line) = Len(cue)
                 /\ CommaForDot(format_timestamp(segment.start), SubSeq(line, 1, n))
                 /\ CommaForDot(format_timestamp(segment.end),
                                SubSeq(line, n + Len(TimeArrow) + 1, Len(line)))
                 /\ \A i \in 1..Len(cue) : line[i] = IF cue[i] = "." THEN "," ELSE cue[i]

C5_Witness ==
    /\ Called("format_srt_subtitles")
    /\ Len(EmittedSegments) >= 2
    /\ \E i \in 1..Len(Segments) : Segments[i].start.ms >= 360000000

\* a fixed "No ... available" text
IsSentinel(s) == StartsWith(s, <<"N", "o", " ">>) /\ Contains(s, <<"a", "v", "a", "i", "l", "a", "b", "l", "e">>)

\* C6: with no words, or no segments, each renderer returns its fixed
\* "No ... available" text, and the document sections write it as their one
\* paragraph.
C6_EmptyInputGivesSentinel ==
    /\ (Called("format_word_timestamps") /\ Words = <<>>) =>
          ret = NoWordsSentinel /\ IsSentinel(ret)
    /\ (Called("format_segment_timestamps") /\ Segments = <<>>) =>
          ret = NoSegmentsSentinel /\ IsSentinel(ret)
    /\ (Called("format_srt_subtitles") /\ Segments = <<>>) =>
          ret = NoSrtSentinel /\ IsSentinel(ret)
    /\ (Called("format_vtt_subtitles") /\ Segments = <<>>) =>
          ret = NoVttSentinel /\ IsSentinel(ret)
    /\ (Called("_add_word_timestamps_section") /\ Words = <<>>) =>
          /\ Len(ret) = 2
          /\ ret[2].kind = "paragraph" /\ IsSentinel(ret[2].text)
    /\ (Called("_add_segment_timestamps_section") /\ Segments = <<>>) =>
          /\ Len(ret) = 2
          /\ ret[2].kind = "paragraph" /\ IsSentinel(ret[2].text)

C6_Witness ==
    /\ Called("format_vtt_subtitles")
    /\ "segments" \notin DOMAIN transcription_data

\* the lines of format_word_timestamps that hold word entries
WordEntryLines == SelectSeq(Lines(ret), LAMBDA line : Contains(line, <<"[">>))

\* one word as format_word_timestamps writes it
WordEntry(word_data) ==
    <<"\"">> \o strip(word_data.word) \o <<"\"", " ", "[">> \o format_timestamp(word_data.start)
    \o <<"-">> \o format_timestamp(word_data.end) \o <<"]">>

\* the words of the n-th group of 8 that are not blank, in order
GroupEntries(n) ==
    LET from == 8 * (n - 1) + 1
        to == IF 8 * n < Len(Words) THEN 8 * n ELSE Len(Words)
        members == SelectSeq(SubSeq(Words, from, to), LAMBDA w : NonBlank(w.word))
    IN [i \in 1..Len(members) |-> WordEntry(members[i])]

EmittedGroups ==
    Ascending({n \in 1..((Len(Words) + 7) \div 8) : GroupEntries(n) # <<>>})

\* C7: the words are cut into consecutive groups of 8; each line holds, in
\* order and joined by " | ", the non-blank words of one group, so a line has
\* 1 to 8 entries and every non-blank word is written once, in input order.
C7_WordsGroupedByEight ==
    (Called("format_word_timestamps") /\ Words # <<>>) =>
        /\ Len(WordEntryLines) = Len(EmittedGroups)
        /\ \A q \in 1..Len(WordEntryLines) :
              /\ WordEntryLines[q] = join(<<" ", "|", " ">>, GroupEntries(EmittedGroups[q]))
              /\ Count(WordEntryLines[q], "[") \in 1..8
        /\ join(<<" ", "|", " ">>, WordEntryLines)
              = join(<<" ", "|", " ">>, [i \in 1..Len(EmittedWords) |-> WordEntry(Words[EmittedWords[i]])])

C7_Witness ==
    /\ Called("format_word_timestamps")
    /\ Len(Words) > 8
    /\ Len(WordEntryLines) = 2
    /\ Len(EmittedWords) < Len(Words)

\* C8: the output for a word list that is not empty starts with the line
\* "WORD-LEVEL TIMESTAMPS" and a separator rule, ahead of every word line.
C8_WordBannerFirst ==
    (Called("format_word_timestamps") /\ Words # <<>>) =>
        /\ Len(Lines(ret)) >= 2
        /\ Lines(ret)[1] = <<"W", "O", "R", "D", "-", "L", "E", "V", "E", "L", " ", "T", "I", "M", "E", "S", "T", "A", "M", "P", "S">>
        /\ IsRule(Lines(ret)[2], "=")
        /\ \A i \in 1..Len(Lines(ret)) : Contains(Lines(ret)[i], <<"[">>) => i > 2

C8_Witness ==
    /\ Called("format_word_timestamps")
    /\ EmittedWords # <<>>

\* C9: after the "SEGMENT-LEVEL TIMESTAMPS" header come, in segment order,
\* four lines for each segment whose stripped text is not empty (sequence
\* header, "Time: <start> --> <end>", the text, a rule) and nothing else.
C9_SegmentBlocks ==
    (Called("format_segment_timestamps") /\ Segments # <<>>) =>
        LET lines == Lines(ret)
        IN /\ lines[1] = <<"S", "E", "G", "M", "E", "N", "T", "-", "L", "E", "V", "E", "L", " ", "T", "I", "M", "E", "S", "T", "A", "M", "P", "S">>
           /\ Len(lines) = 3 + 4 * Len(EmittedSegments)
           /\ \A b \in 1..Len(EmittedSegments) :
                 LET segment == Segments[EmittedSegments[b]]
                     at == 3 + 4 * (b - 1)
                 IN /\ StartsWith(lines[at + 1], <<"S", "e", "g", "m", "e", "n", "t", " ">>)
                    /\ IsDigits(SubSeq(lines[at + 1], 9, Len(lines[at + 1])))
                    /\ lines[at + 2] = <<"T", "i", "m", "e", ":", " ">> \o format_timestamp(segment.start)
                                       \o <<" ", "-", "-", ">", " ">> \o format_timestamp(segment.end)
                    /\ lines[at + 3] = <<"T", "e", "x", "t", ":", " ">> \o strip(segment.text)
                    /\ IsRule(lines[at + 4], "-")

C9_Witness ==
    /\ Called("format_segment_timestamps")
    /\ Len(EmittedSegments) >= 2
    /\ Len(EmittedSegments) < Len(Segments)

WithoutCommas(s) == SelectSeq(s, LAMBDA c : c # ",")

C11_ZeroDurationGivesZeroWpm ==
    (Called("get_transcription_summary")
        /\ get(transcription_data, "duration", Time0) = Time0) =>
        /\ Len(ret) = 6
        /\ ret[5][1] = <<"W", "o", "r", "d", "s", " ", "p", "e", "r", " ", "M", "i", "n", "u", "t", "e">>
        /\ ret[5][2] = <<"0">>

C11_Witness ==
    /\ Called("get_transcription_summary")
    /\ get(transcription_data, "duration", Time0) = Time0
    /\ get(transcription_data, "word_count", 0) = 1234
    /\ ret[5][2] = <<"0">>
\* the characters a file name keeps: letters, digits, space, hyphen, underscore
AllowedInName(c) ==
    \/ \E n \in 1..26 : c = LowerChars[n] \/ c = UpperChars[n]
    \/ \E d \in 0..9 : c = Digit(d)
    \/ c = " " \/ c = "-" \/ c = "_"

\* C14: get_filename returns "<clean_base>_<format_type>.<file_format>",
\* clean_base being the letters, digits, spaces, hyphens and underscores of
\* base_name in their order, each space written as an underscore.
C14_FilenameSanitized ==
    (call.op = "get_filename" /\ base_name # <<>>) =>
        LET kept == Ascending({i \in 1..Len(base_name) : AllowedInName(base_name[i])})
        IN /\ ret = FilenameBase \o <<"_">> \o call.format_type \o <<".">> \o call.file_format
           /\ Len(FilenameBase) = Len(kept)
           /\ \A j \in 1..Len(kept) :
                 /\ FilenameBase[j] # " "
                 /\ FilenameBase[j] = IF base_name[kept[j]] = " " THEN "_" ELSE base_name[kept[j]]
           /\ (base_name = <<"t", "e", "s", "t", " ", "f", "i", "l", "e">> /\ call.format_type = <<"p", "l", "a", "i", "n", "_", "t", "e", "x", "t">>
                   /\ call.file_format = <<"t", "x", "t">>)
                 => ret = <<"t", "e", "s", "t", "_", "f", "i", "l", "e", "_", "p", "l", "a", "i", "n", "_", "t", "e", "x", "t", ".", "t", "x", "t">>

C14_Witness ==
    /\ call.op = "get_filename"
    /\ base_name = <<"-", "?", " ">>
    /\ FilenameBase = <<"-", "_">>
\* C20: for a segment list that is not empty the VTT output is the line
\* "WEBVTT", an empty line, and then for each segment whose stripped text is
\* not empty, in order, "<start> --> <end>" with dot-decimal timestamps, the
\* text, and an empty line; the other segments add nothing.
C20_VttCues ==
    (Called("format_vtt_subtitles") /\ Segments # <<>>) =>
        LET lines == Lines(ret)
        IN /\ Len(lines) = 2 + 3 * Len(EmittedSegments)
           /\ lines[1] = <<"W", "E", "B", "V", "T", "T">>
           /\ lines[2] = <<>>
           /\ \A b \in 1..Len(EmittedSegments) :
                 LET segment == Segments[EmittedSegments[b]]
                     at == 2 + 3 * (b - 1)
                 IN /\ lines[at + 1] = format_timestamp(segment.start) \o <<" ", "-", "-", ">", " ">>
                                       \o format_timestamp(segment.end)
                    /\ Count(lines[at + 1], ".") = 2
                    /\ Count(lines[at + 1], ",") = 0
                    /\ lines[at + 2] = strip(segment.text)
                    /\ lines[at + 3] = <<>>

C20_Witness ==
    /\ Called("format_vtt_subtitles")
    /\ Len(Segments) = 3
    /\ Len(EmittedSegments) = 2
    /\ ~NonBlank(Segments[2].text)
\* the lines of the document's word section: the words of the text paragraph
\* of each (time range, text, spacing) group after the heading
DocLineCount == (Len(ret) - 1) \div 3
DocLineText(k) == ret[1 + 3 * (k - 1) + 2].text
DocLineWords(k) == split(DocLineText(k), " ")

EndsInSentenceMark(word) ==
    word # <<>> /\ (word[Len(word)] = "." \/ word[Len(word)] = "!" \/ word[Len(word)] = "?")

\* C12: the document's word section cuts the non-blank words, in order, into
\* lines closed at the tenth word or at a word ending in '.', '!' or '?':
\* a line has 1 to 10 words, only its last word may end a sentence, and only
\* the last line may be short of 10 words without ending a sentence.
C12_DocLinesOfTenOrSentence ==
    (Called("_add_word_timestamps_section") /\ Words # <<>>) =>
        /\ Len(ret) = 1 + 3 * DocLineCount
        /\ join(<<" ">>, [k \in 1..DocLineCount |-> DocLineText(k)])
              = join(<<" ">>, [i \in 1..Len(EmittedWords) |-> strip(Words[EmittedWords[i]].word)])
        /\ \A k \in 1..DocLineCount :
              LET line == DocLineWords(k)
              IN /\ Len(line) \in 1..10
                 /\ \A j \in 1..(Len(line) - 1) : ~EndsInSentenceMark(line[j])
                 /\ k < DocLineCount =>
                       (Len(line) = 10 \/ EndsInSentenceMark(line[Len(line)]))

C12_Witness ==
    /\ Called("_add_word_timestamps_section")
    /\ Len(EmittedWords) < Len(Words)
    /\ DocLineCount = 3
    /\ Len(DocLineWords(1)) < 10 /\ EndsInSentenceMark(DocLineWords(1)[Len(DocLineWords(1))])
    /\ Len(DocLineWords(2)) = 10 /\ ~EndsInSentenceMark(DocLineWords(2)[10])
    /\ Len(DocLineWords(3)) < 10 /\ ~EndsInSentenceMark(DocLineWords(3)[Len(DocLineWords(3))])

(***************************************************************************)
(* Properties of the exporter and of the results page.                     *)
(***************************************************************************)
\* the document create_docx_download was putting together in the last call
DocxInTheMaking ==
    assemble_docx(transcription_data, call.format_type, call.fault)

\* a document with the title, the summary, a content section and no trace
\* of an exception
CompleteDocx(doc) ==
    /\ Len(doc) >= 5
    /\ doc[1] = TitleHeading
    /\ doc[2] = Heading(<<"S", "u", "m", "m", "a", "r", "y">>, 1)
    /\ doc[3].kind = "table" /\ Len(doc[3].rows) = 6
    /\ doc[4].kind = "page_break"
    /\ doc[5].kind = "heading" /\ doc[5].level = 1
    /\ \A i \in 1..Len(doc) : doc[i].kind # "exception"

\* C13: create_docx_download is all-or-nothing: when a step of the assembly
\* (title, summary table, content section, save) raises, the call does not
\* raise, reports the error once and returns None; it returns bytes only
\* when every step completed, and they hold the complete document.
C13_DocxAllOrNothing ==
    (call.op = "create_docx_download") =>
        /\ ~call.raised
        /\ (Raised(DocxInTheMaking) \/ call.fault = "save")
              => (ret = <<>> /\ st_error = <<DocxError>>)
        /\ (call.fault = "title"
              \/ get(transcription_data, "duration", Time0) = NoneTime
              \/ (call.format_type = <<"s", "e", "g", "m", "e", "n", "t", "_", "t", "i", "m", "e", "s", "t", "a", "m", "p", "s">>
                    /\ \E i \in 1..Len(Segments) :
                          /\ NonBlank(Segments[i].text)
                          /\ NoneTime \in {Segments[i].start, Segments[i].end}))
              => ret = <<>>
        /\ ret = <<>> => st_error = <<DocxError>>
        /\ ret # <<>> =>
              /\ st_error = <<>>
              /\ call.fault = "none"
              /\ ret[1].docx = DocxInTheMaking
              /\ CompleteDocx(ret[1].docx)

\* the content section raised after lines of it were written
C13_Witness ==
    /\ call.op = "create_docx_download"
    /\ call.fault = "none"
    /\ call.format_type = <<"w", "o", "r", "d", "_", "t", "i", "m", "e", "s", "t", "a", "m", "p", "s">>
    /\ Len(DocxInTheMaking) > 6
    /\ Raised(DocxInTheMaking)
    /\ ret = <<>>
    /\ st_error = <<DocxError>>

\* a download button of the page for the file of this content kind and file
\* kind, with these bytes
Offered(format_type, file_format, data) ==
    \E i \in 1..Len(download_buttons) :
        /\ download_buttons[i].file_name = get_filename(base_name, format_type, file_format)
        /\ download_buttons[i].data = data

\* C15: renderer failures are local in the results stage: whichever export
\* fails, every export that can be produced from the result is produced and
\* offered on the page with its own bytes.
C15_RendererFailuresAreLocal ==
    (call.op = "render_results_section") =>
        /\ Offered(<<"p", "l", "a", "i", "n", "_", "t", "e", "x", "t">>, <<"t", "x", "t">>, encode(format_plain_text(transcription_data)))
        /\ ~format_word_timestamps_raises(transcription_data) =>
              Offered(<<"w", "o", "r", "d", "_", "t", "i", "m", "e", "s", "t", "a", "m", "p", "s">>, <<"t", "x", "t">>,
                      encode(format_word_timestamps(transcription_data)))
        /\ ~format_segment_timestamps_raises(transcription_data) =>
              Offered(<<"s", "e", "g", "m", "e", "n", "t", "_", "t", "i", "m", "e", "s", "t", "a", "m", "p", "s">>, <<"t", "x", "t">>,
                      encode(format_segment_timestamps(transcription_data)))
        /\ \A format_type \in DocxFormatTypes :
              create_docx_download(transcription_data, format_type, call.fault, now).ret # <<>> =>
                  Offered(format_type, <<"d", "o", "c", "x">>,
                          create_docx_download(transcription_data, format_type, call.fault, now).ret[1])
        /\ \A subtitle_format \in {<<"s", "r", "t">>, <<"v", "t", "t">>} :
              truthy(create_subtitle_download(transcription_data, subtitle_format).ret) =>
                  Offered(<<"s", "u", "b", "t", "i", "t", "l", "e", "s">>, subtitle_format,
                          create_subtitle_download(transcription_data, subtitle_format).ret[1])

\* the renderers of the formatter and of the exporter
Renderers ==
    {"format_plain_text", "format_word_timestamps", "format_segment_timestamps",
     "format_srt_subtitles", "format_vtt_subtitles", "get_transcription_summary",
     "create_docx_download", "create_subtitle_download"}

\* C18: no renderer mutates the transcription result: whatever calls are
\* made one after the other, the result (text, segments, words, language,
\* duration and counts) stays as it was.
C18_ResultNeverMutated ==
    [][transcription_data' = transcription_data]_vars

\* a renderer has returned from a result with words and segments, after
\* another call
C18_Witness ==
    /\ call.op \in Renderers
    /\ ~call.raised
    /\ Words # <<>> /\ Segments # <<>>
    /\ transcription_data.text # strip(transcription_data.text)
    /\ call.op = "create_subtitle_download" => ret # <<>>

\* C19: rendering is deterministic: a renderer applied again to the same
\* result, whatever was rendered and however much time passed in between,
\* gives what it gave the first time.
C19_RenderingDeterministic ==
    (remembered # <<>> /\ call = remembered[1].call) => ret = remembered[1].ret

(***************************************************************************)
(* Properties of the engine.                                               *)
(***************************************************************************)
\* C16: the fractions transcribe_audio passes to the progress callback lie
\* in [0, 1] and never decrease over the call; a call that succeeds reports
\* 1.0 last; a call in which the model fails to load or transcription
\* raises never reports 1.0 and returns None.
C16_ProgressFractions ==
    (call.op = "transcribe_audio") =>
        /\ \A i \in 1..Len(progress) : progress[i] \in 0..10
        /\ \A i, j \in 1..Len(progress) : i < j => progress[i] <= progress[j]
        /\ ~call.progress_callback => progress = <<>>
        /\ (pc = "returned" /\ call.failed = "no") =>
              /\ ret # <<>>
              /\ call.progress_callback =>
                    (progress # <<>> /\ progress[Len(progress)] = 10)
        /\ call.failed # "no" =>
              /\ \A i \in 1..Len(progress) : progress[i] # 10
              /\ pc = "returned"
              /\ ret = <<>>
        /\ (pc = "returned" /\ ret = <<>>) => call.failed # "no"

\* a call with a callback has succeeded: the callback saw the three
\* fractions
C16_Witness ==
    /\ call.op = "transcribe_audio"
    /\ call.progress_callback
    /\ pc = "returned"
    /\ ret # <<>>
    /\ progress = <<1, 9, 10>>

\* the words of the raw segments from the i-th on whose text is not blank
RECURSIVE RawWordsSpoken(_, _)
RawWordsSpoken(segments, i) ==
    IF i > Len(segments) THEN 0
    ELSE Cardinality({k \in 1..Len(get(segments[i], "words", <<>>)) :
                          NonBlank(get(segments[i].words[k], "word", <<>>))})
         + RawWordsSpoken(segments, i + 1)

\* the raw result has been processed in this call
ProcessedNow == call.op = "transcribe_audio" /\ pc \in {"complete", "return", "returned"}
                /\ result # <<>>

\* C17: the result _process_transcription_result produces has duration equal
\* to the end of the last segment, or 0 without segments; word_count equal
\* to the number of words whose text is not empty; segment_count equal to
\* the number of segments; the fallback result of a failed processing, with
\* no segments and no words, too.
C17_DerivedFields ==
    ProcessedNow =>
        /\ transcription_data.segment_count = Len(transcription_data.segments)
        /\ transcription_data.duration
              = IF transcription_data.segments # <<>>
                THEN transcription_data.segments[Len(transcription_data.segments)].end
                ELSE Time0
        /\ transcription_data.word_count
              = Cardinality({k \in 1..Len(transcription_data.words) :
                                 transcription_data.words[k].word # <<>>})
        /\ IF ProcessingError \in SeqRange(st_error)
           THEN /\ transcription_data.segments = <<>>
                /\ transcription_data.words = <<>>
                /\ transcription_data.word_count = 0
           ELSE /\ Len(transcription_data.segments) = Len(get(result[1], "segments", <<>>))
                /\ transcription_data.word_count
                      = RawWordsSpoken(get(result[1], "segments", <<>>), 1)
                /\ transcription_data.segments # <<>> =>
                      transcription_data.duration
                          = get(result[1].segments[Len(result[1].segments)], "end", NoneTime)

\* two segments, one of them with a blank word, processed and returned
C17_Witness ==
    /\ ProcessedNow
    /\ pc = "returned"
    /\ transcription_data.segment_count = 2
    /\ transcription_data.word_count > 0
    /\ transcription_data.word_count < Len(transcription_data.words)
    /\ transcription_data.duration = WholeMs(4400)

(***************************************************************************)
(* Properties of the plain text, the button labels and the subtitles.      *)
(***************************************************************************)
\* C21: format_plain_text returns the text without its leading and trailing
\* whitespace and with no other change: the result is the stretch of the
\* text between its first and its last character that is not whitespace;
\* without a text field it is empty; stripped again it stays the same.
C21_PlainTextStripped ==
    Called("format_plain_text") =>
        LET text == get(transcription_data, "text", <<>>)
        IN /\ \E i \in 1..(Len(text) + 1), j \in 0..Len(text) :
                 /\ ret = SubSeq(text, i, j)
                 /\ \A k \in 1..Len(text) : (k < i \/ k > j) => text[k] \in Whitespace
           /\ ret # <<>> => (ret[1] \notin Whitespace /\ ret[Len(ret)] \notin Whitespace)
           /\ "text" \notin DOMAIN transcription_data => ret = <<>>
           /\ format_plain_text([text |-> ret]) = ret

\* whitespace taken off both ends and kept inside
C21_Witness ==
    /\ Called("format_plain_text")
    /\ transcription_data = [text |-> <<"\t", "a", "U+00A0", "b">>]
    /\ ret = <<"a", "U+00A0", "b">>

\* the letter a character is, whatever its case: 0 for any other character
LetterOf(c) ==
    IF \E n \in 1..26 : c \in {LowerChars[n], UpperChars[n]}
    THEN CHOOSE n \in 1..26 : c \in {LowerChars[n], UpperChars[n]}
    ELSE 0

\* t is s with each letter that begins a run of letters in upper case, each
\* other letter in lower case, and every other character as it was
TitleCased(s, t) ==
    /\ Len(t) = Len(s)
    /\ \A i \in 1..Len(s) :
          IF LetterOf(s[i]) = 0 THEN t[i] = s[i]
          ELSE IF i > 1 /\ LetterOf(s[i - 1]) # 0
               THEN t[i] = LowerChars[LetterOf(s[i])]
               ELSE t[i] = UpperChars[LetterOf(s[i])]

\* t is s with each letter in upper case
UpperCased(s, t) ==
    /\ Len(t) = Len(s)
    /\ \A i \in 1..Len(s) :
          IF LetterOf(s[i]) = 0 THEN t[i] = s[i]
          ELSE t[i] = UpperChars[LetterOf(s[i])]

\* C22: get_download_button_label never raises on strings; its label is the
\* page sign, " Download ", the display name and the file format in upper
\* case between brackets, where the display name of plain_text is
\* "Plain Text", of word_timestamps "Word Timestamps", of segment_timestamps
\* "Segment Timestamps" and of any other format type its title-cased form.
C22_ButtonLabel ==
    call.op = "get_download_button_label" =>
        /\ ~call.raised
        /\ LET sign == PageSign \o <<" ", "D", "o", "w", "n", "l", "o", "a", "d", " ">>
               n == Len(ret)
               e == Len(call.file_format)
               name == SubSeq(ret, Len(sign) + 1, n - e - 3)
               extension == SubSeq(ret, n - e, n - 1)
           IN /\ ret = sign \o name \o <<" ", "(">> \o extension \o <<")">>
              /\ UpperCased(call.file_format, extension)
              /\ call.format_type = <<"p", "l", "a", "i", "n", "_", "t", "e", "x", "t">> => name = <<"P", "l", "a", "i", "n", " ", "T", "e", "x", "t">>
              /\ call.format_type = <<"w", "o", "r", "d", "_", "t", "i", "m", "e", "s", "t", "a", "m", "p", "s">> => name = <<"W", "o", "r", "d", " ", "T", "i", "m", "e", "s", "t", "a", "m", "p", "s">>
              /\ call.format_type = <<"s", "e", "g", "m", "e", "n", "t", "_", "t", "i", "m", "e", "s", "t", "a", "m", "p", "s">> => name = <<"S", "e", "g", "m", "e", "n", "t", " ", "T", "i", "m", "e", "s", "t", "a", "m", "p", "s">>
              /\ call.format_type \notin
                     {<<"p", "l", "a", "i", "n", "_", "t", "e", "x", "t">>, <<"w", "o", "r", "d", "_", "t", "i", "m", "e", "s", "t", "a", "m", "p", "s">>, <<"s", "e", "g", "m", "e", "n", "t", "_", "t", "i", "m", "e", "s", "t", "a", "m", "p", "s">>}
                 => TitleCased(call.format_type, name)

\* an unknown format type of two runs of letters in mixed case
C22_Witness ==
    /\ Called("get_download_button_label")
    /\ call.format_type = <<"a", "B", "_">>
    /\ call.file_format = <<"S", "r", "t">>
    /\ ret = PageSign \o <<" ", "D", "o", "w", "n", "l", "o", "a", "d", " ", "A", "b", "_", " ", "(", "S", "R", "T", ")">>


IsNumber(s) == s # <<>> /\ \A i \in 1..Len(s) : s[i] \in SeqRange(DigitChars)

\* C28: on a list of segments that is not empty the SRT and the VTT output
\* hold cues for the same segments, those whose stripped text is not empty,
\* in the order of the list, with the same text and the same times; the SRT
\* output is the VTT output without its header, with a line of digits in
\* front of each cue, and with ',' for '.' in the time lines.
C28_SrtAndVttSameCues ==
    (Called("format_vtt_subtitles") /\ Segments # <<>>) =>
        LET vtt == Lines(ret)
            srt_text == format_srt_subtitles(transcription_data)
            srt == IF srt_text = <<>> THEN <<>> ELSE Lines(srt_text)
            k == Len(EmittedSegments)
        IN /\ ~format_srt_subtitles_raises(transcription_data)
           /\ Len(vtt) = 2 + 3 * k
           /\ Len(srt) = 4 * k
           /\ vtt[1] = <<"W", "E", "B", "V", "T", "T">> /\ vtt[2] = <<>>
           /\ \A b \in 1..k :
                 LET segment == Segments[EmittedSegments[b]]
                     cue == 2 + 3 * (b - 1)
                     block == 4 * (b - 1)
                 IN /\ IsNumber(srt[block + 1])
                    /\ vtt[cue + 1] = format_timestamp(segment.start) \o TimeArrow
                                          \o format_timestamp(segment.end)
                    /\ Len(srt[block + 2]) = Len(vtt[cue + 1])
                    /\ \A i \in 1..Len(vtt[cue + 1]) :
                          srt[block + 2][i] =
                              IF vtt[cue + 1][i] = "." THEN "," ELSE vtt[cue + 1][i]
                    /\ vtt[cue + 2] = srt[block + 3]
                    /\ NonBlank(vtt[cue + 2])
                    /\ vtt[cue + 2][1] \notin Whitespace
                    /\ vtt[cue + 2][Len(vtt[cue + 2])] \notin Whitespace
                    /\ Contains(segment.text, vtt[cue + 2])
                    /\ vtt[cue + 3] = <<>> /\ srt[block + 4] = <<>>

\* a blank segment between two spoken ones, one of them with spaces around
\* its text
C28_Witness ==
    /\ Called("format_vtt_subtitles")
    /\ Len(Segments) = 3
    /\ Len(EmittedSegments) = 2
    /\ ~NonBlank(Segments[2].text)
    /\ \E i \in {1, 3} : Segments[i].text = <<" ", "o", "k", " ">>

\* "Segment NNN" for the position i of a segment in the list
SegmentLabel(i) ==
    <<"S", "e", "g", "m", "e", "n", "t", " ">> \o <<DigitChars[((i \div 100) % 10) + 1],
                      DigitChars[((i \div 10) % 10) + 1],
                      DigitChars[(i % 10) + 1]>>

\* the headings of level 2 of a document, in order
SegmentHeadings(doc) ==
    SelectSeq(doc, LAMBDA element : element.kind = "heading" /\ element.level = 2)

\* C29: the "Segment NNN" header of a segment carries the segment's position
\* in the whole list, counted from 1 with blank segments counted too, in
\* three digits, in format_segment_timestamps and in the segment section of
\* the document alike.
C29_SegmentLabelIsPosition ==
    /\ (Called("format_segment_timestamps") /\ Segments # <<>>) =>
          LET docx == add_segment_timestamps_section(NewDocument, transcription_data)
          IN /\ ~Raised(docx)
             /\ Len(SegmentHeadings(docx)) = Len(EmittedSegments)
             /\ \A b \in 1..Len(EmittedSegments) :
                   /\ Lines(ret)[3 + 4 * (b - 1) + 1] = SegmentLabel(EmittedSegments[b])
                   /\ SegmentHeadings(docx)[b].text = Lines(ret)[3 + 4 * (b - 1) + 1]
    /\ (Called("_add_segment_timestamps_section") /\ Segments # <<>>) =>
          /\ Len(SegmentHeadings(ret)) = Len(EmittedSegments)
          /\ \A b \in 1..Len(EmittedSegments) :
                /\ SegmentHeadings(ret)[b].text = SegmentLabel(EmittedSegments[b])
                /\ ret[2 + 4 * (b - 1)] = SegmentHeadings(ret)[b]

\* the document's section of a list whose first segment is blank
C29_Witness ==
    /\ Called("_add_segment_timestamps_section")
    /\ Len(Segments) = 3
    /\ EmittedSegments = <<2, 3>>
    /\ SegmentHeadings(ret)[1].text = <<"S", "e", "g", "m", "e", "n", "t", " ", "0", "0", "2">>

\* the segment list is not empty and no segment has text
AllSegmentsBlank == Segments # <<>> /\ EmittedSegments = <<>>

\* the file of the subtitles of a kind is offered on the page
SubtitlesOffered(subtitle_format) ==
    \E i \in 1..Len(download_buttons) :
        download_buttons[i].file_name = get_filename(base_name, <<"s", "u", "b", "t", "i", "t", "l", "e", "s">>, subtitle_format)

\* C30: format_srt_subtitles returns the empty string exactly when the list
\* of segments is not empty and every segment is blank; create_subtitle_download
\* then returns empty bytes, not None and not the "No segments" text, and
\* the results page shows no SRT button and a VTT button whose file is the
\* WEBVTT header alone (the page as it stands when it was rendered to its
\* end).
C30_EmptySrtIsNotOffered ==
    /\ Called("format_srt_subtitles") => (ret = <<>> <=> AllSegmentsBlank)
    /\ (Called("create_subtitle_download") /\ call.subtitle_format = <<"s", "r", "t">>
            /\ AllSegmentsBlank)
           => ret = <<encode(<<>>)>> /\ st_error = <<>>
    /\ (Called("render_results_section") /\ AllSegmentsBlank)
           => /\ ~SubtitlesOffered(<<"s", "r", "t">>)
              /\ Offered(<<"s", "u", "b", "t", "i", "t", "l", "e", "s">>, <<"v", "t", "t">>, encode(WebVttHeader \o <<NL>>))

\* the page of a result whose only segment is blank
C30_Witness ==
    /\ call.op = "render_results_section"
    /\ ~call.raised
    /\ AllSegmentsBlank
    /\ SubtitlesOffered(<<"v", "t", "t">>)
\* the time range above the k-th line of the word section
DocLineRange(k) == ret[1 + 3 * (k - 1) + 1].text

\* the words placed in the lines before the k-th
RECURSIVE PlacedBefore(_)
PlacedBefore(k) ==
    IF k <= 1 THEN 0 ELSE PlacedBefore(k - 1) + Len(DocLineWords(k - 1))

\* the first and the last word placed in the k-th line
FirstPlaced(k) == Words[EmittedWords[PlacedBefore(k) + 1]]
LastPlaced(k) == Words[EmittedWords[PlacedBefore(k) + Len(DocLineWords(k))]]

\* C25: in the word section of the document the time range of every line,
\* the last and shorter one too, runs from the start of the first word
\* placed in the line to the end of the last word placed in it.
C25_DocLineRanges ==
    (Called("_add_word_timestamps_section") /\ Words # <<>>) =>
        \A k \in 1..DocLineCount :
            DocLineRange(k) =
                <<"[">> \o format_timestamp(FirstPlaced(k).start)
                    \o <<" ">> \o RightArrow \o <<" ">>
                    \o format_timestamp(LastPlaced(k).end) \o <<"]">>

(***************************************************************************)
(* Properties of the session.                                              *)
(***************************************************************************)
Stages == {"input", "processing", "results"}

\* a session in which a stage has what it needs
StageHasItsData(session) ==
    /\ session.processing_stage = "results"
           => session.transcription_result \notin {None, Absent}
    /\ session.processing_stage = "processing"
           => session.audio_file \notin {None, Absent}

\* the results stage is entered from the processing stage only, in the run
\* that stores a transcription result
ResultsEnteredWithResult ==
    (session_state'.processing_stage = "results"
         /\ session_state.processing_stage # "results")
    => /\ session_state.processing_stage = "processing"
       /\ session_state.transcription_result = None
       /\ session_state'.transcription_result
              = transcribe_audio(session_state.audio_file)
       /\ call'.op = "Start Transcription"

\* C23 as stated: at the end of every run of the script processing_stage is
\* input, processing or results, the results stage has a transcription
\* result, the processing stage has an audio file, and the results stage is
\* entered from the processing stage only, in the run that stores a result.
C23_StageInvariant_everywhere ==
    /\ [](session_state.processing_stage \in Stages /\ StageHasItsData(session_state))
    /\ [][ResultsEnteredWithResult]_vars

\* C23: the same at the end of every run but the one in which Reset Session
\* was pressed, which leaves st.session_state without any key: the run that
\* follows at once sets the keys to their defaults, the input stage with no
\* audio file and no result.
C23_StageInvariant ==
    /\ [](\/ session_state = NoSession /\ call.op = "Reset Session" /\ pc = "rerun"
          \/ /\ session_state.processing_stage \in Stages
             /\ \A key \in DOMAIN session_state : session_state[key] # Absent
             /\ StageHasItsData(session_state))
    /\ [][ResultsEnteredWithResult]_vars

\* the results page of a downloaded file is shown, after the run that stored
\* its transcription
C23_Witness ==
    /\ session_state.processing_stage = "results"
    /\ session_state.audio_file = "song.wav"
    /\ session_state.transcription_result = transcribe_audio("song.wav")
    /\ call.op = "none"
    /\ pc = "shown"

\* Reset Session was pressed on the results page
C23_Reset ==
    /\ call.op = "Reset Session"
    /\ session_state = NoSession

\* the run in which Re-transcribe Current File is pressed
RetranscribeKeepsTheFile ==
    call'.op = "Re-transcribe Current File"
    => /\ session_state'.transcription_result = None
       /\ session_state'.processing_stage = "processing"
       /\ session_state'.audio_file = session_state.audio_file
       /\ session_state'.audio_file \in AudioFiles
       /\ session_state'.source_filename = session_state.source_filename
       /\ UNCHANGED <<temp_dir, downloads_dir>>

\* the run in which Process Another File is pressed
ProcessAnotherClearsAll ==
    call'.op = "Process Another File"
    => /\ session_state'.audio_file = None
       /\ session_state'.transcription_result = None
       /\ session_state'.source_filename = None
       /\ session_state'.processing_stage = "input"

\* a transcription result in the session is the one of the audio file in the
\* session, under the name of that file
ResultOfTheCurrentFile ==
    session_state.transcription_result \notin {None, Absent}
    => /\ session_state.audio_file \in AudioFiles
       /\ session_state.transcription_result = transcribe_audio(session_state.audio_file)
       /\ session_state.source_filename = stem(session_state.audio_file)

\* C24: Re-transcribe Current File sets transcription_result to None and
\* processing_stage to processing and leaves audio_file and source_filename
\* as they are; Process Another File clears audio_file, transcription_result
\* and source_filename and goes to the input stage; the session never holds
\* the transcription result of one file next to another audio file.
C24_RetranscribeAndProcessAnother ==
    /\ [][RetranscribeKeepsTheFile /\ ProcessAnotherClearsAll]_vars
    /\ []ResultOfTheCurrentFile

\* the second downloaded file is about to be transcribed again
C24_Witness ==
    /\ call.op = "Re-transcribe Current File"
    /\ downloads_dir = {"talk.wav", "song.wav"}
    /\ session_state.audio_file = "song.wav"
    /\ session_state.source_filename = "song"
    /\ session_state.transcription_result = None
    /\ session_state.processing_stage = "processing"

(***************************************************************************)
(* Properties of the downloader.                                           *)
(***************************************************************************)
Downloading == call.op = "download_audio" /\ pc # "returned"
DownloadReturned == call.op = "download_audio" /\ pc = "returned"

\* C26: download_audio starts at most two downloads, the primary one and
\* one fallback; it returns, without raising, the path of the WAV file or
\* None, and the path only after ffmpeg exited with 0 and left a file of
\* more than 10000 bytes; every call comes to its return.
C26_DownloadTerminates ==
    /\ [](attempts <= 2)
    /\ [](DownloadReturned =>
            /\ ~call.raised
            /\ ret \in {None, wav_path}
            /\ ret # None => /\ conversion.ran
                             /\ conversion.returncode = 0
                             /\ conversion.exists
                             /\ conversion.st_size > 10000)
    /\ (Downloading ~> DownloadReturned)

\* a path returned by the fallback, after the primary conversion failed
C26_Witness ==
    /\ DownloadReturned
    /\ attempts = 2
    /\ ret = wav_path
    /\ conversion.st_size = MinWavSize + 1

\* C27: the fractions progress_callback receives lie between 0 and 1 and
\* never go down, on the fallback path too, and 1.0 is among them only when
\* download_audio returns a file.
C27_ProgressNeverGoesDown ==
    call.op = "download_audio" =>
        /\ \A i \in 1..Len(progress) : progress[i] \in 0..100
        /\ \A i, j \in 1..Len(progress) : i < j => progress[i] <= progress[j]
        /\ (\E i \in 1..Len(progress) : progress[i] = 100)
               => DownloadReturned /\ ret = wav_path
====
